---------------------------- MODULE Spec2Model ----------------------------
(***************************************************************************)
(* Model of src/pacman4k.py: the frame loop of run_game, Player.update,    *)
(* Ghost.update, the four target functions, generate_level and reset_level.*)
(*                                                                         *)
(* Arithmetic.  The program computes with floats; the model computes with  *)
(* exact integers:                                                         *)
(*   - time is counted in milliseconds (clock.tick returns whole           *)
(*     milliseconds, dt = ms/1000.0);                                      *)
(*   - lengths are counted in units of 1/U tile, U = 400000, so that the   *)
(*     player's step (5 tiles/s = 2000 units/ms) and a pursuer's step      *)
(*     (1.18 * ghost_pct * 5 tiles/s = 2360 + 118*(level-1) units/ms,      *)
(*     halved when frightened) are whole numbers of units;                 *)
(*   - a pursuer's speed is kept in 1/100 unit per ms, so that the Elroy   *)
(*     factor 1.05 = 21/20 stays a whole number at level 1.                *)
(* maze[y][x] of the program is maze[y+1][x+1] here (sequences start at 1).*)
(***************************************************************************)
EXTENDS Integers, Sequences, FiniteSets, TLC

GRID_W == 28
GRID_H == 31
U == 400000
HalfU == 200000

\* directions as the program's (dx, dy) tuples
NoDir == <<0, 0>>
DUp == <<0, -1>>
DDown == <<0, 1>>
DLeft == <<-1, 0>>
DRight == <<1, 0>>
\* the order of the list [(0,-1),(0,1),(-1,0),(1,0)]
DirOrder == <<DUp, DDown, DLeft, DRight>>

Abs(v) == IF v < 0 THEN -v ELSE v
Min(a, b) == IF a < b THEN a ELSE b
Max(a, b) == IF a > b THEN a ELSE b

clamp(v, lo, hi) == Max(lo, Min(hi, v))

\* int(v) of a length v: the tile index, truncated towards zero
Tile(v) == IF v >= 0 THEN v \div U ELSE -((-v) \div U)

\* round(v) of a length v >= 0, in tiles: nearest integer, ties to the even one
PyRound(v) ==
  LET q == v \div U
      r == v % U
  IN  IF 2 * r < U THEN q
      ELSE IF 2 * r > U THEN q + 1
      ELSE IF q % 2 = 0 THEN q ELSE q + 1

\* a variant of the table with strict tests, against which C4 is compared
frightened_duration_strict(lv) ==
  IF lv < 1 THEN 6000
  ELSE IF lv < 4 THEN 5000
  ELSE IF lv < 8 THEN 4000
  ELSE IF lv < 12 THEN 3000
  ELSE IF lv < 20 THEN 2000
  ELSE IF lv < 25 THEN 1000
  ELSE 500

frightened_duration_for_level(lv) ==
  IF lv <= 1 THEN 6000
  ELSE IF lv <= 4 THEN 5000
  ELSE IF lv <= 8 THEN 4000
  ELSE IF lv <= 12 THEN 3000
  ELSE IF lv <= 20 THEN 2000
  ELSE IF lv <= 25 THEN 1000
  ELSE 500

-----------------------------------------------------------------------------
(* generate_level: the wall pattern, the pellets and the per-level values   *)

BorderWall(x, y) == x = 0 \/ x = GRID_W - 1 \/ y = 0 \/ y = GRID_H - 1

RowWall(x, y) ==
  /\ 2 <= x /\ x < GRID_W - 2
  /\ \/ y = 2 /\ (x < 10 \/ x > 17)
     \/ y = 4 /\ (x < 6 \/ x > 21)
     \/ y = 6 /\ ((6 <= x /\ x <= 9) \/ (18 <= x /\ x <= 21))
     \/ y = 9 /\ ((6 <= x /\ x <= 12) \/ (15 <= x /\ x <= 21))
     \/ y = 11 /\ (9 <= x /\ x <= 18)
     \/ y = 14 /\ (x < 6 \/ x > 21)
     \/ y = 16 /\ ((6 <= x /\ x <= 12) \/ (15 <= x /\ x <= 21))
     \/ y = 19 /\ ((6 <= x /\ x <= 9) \/ (18 <= x /\ x <= 21))
     \/ y = 21 /\ (x < 6 \/ x > 21)
     \/ y = 23 /\ (x < 10 \/ x > 17)

\* a vertical bar at column c and at its mirror column GRID_W-1-c
Bar(x, y, c, y0, y1) == (x = c \/ x = GRID_W - 1 - c) /\ y0 <= y /\ y < y1

ColWall(x, y) ==
  \/ Bar(x, y, 2, 2, 5)
  \/ Bar(x, y, 6, 2, 7)
  \/ Bar(x, y, 9, 2, 10)
  \/ Bar(x, y, 12, 6, 10)
  \/ Bar(x, y, 6, 11, 15)
  \/ Bar(x, y, 2, 14, 20)
  \/ Bar(x, y, 9, 16, 20)
  \/ Bar(x, y, 12, 16, 23)
  \/ Bar(x, y, 6, 21, 24)

HouseWall(x, y) ==
  /\ \/ (y = 13 \/ y = 15) /\ 10 <= x /\ x < 18
     \/ (x = 10 \/ x = 17) /\ 13 <= y /\ y < 16
  /\ ~(y = 13 /\ (x = 13 \/ x = 14))

BaseWall(x, y) ==
  IF y = 13 /\ (x = 13 \/ x = 14) THEN FALSE
  ELSE BorderWall(x, y) \/ RowWall(x, y) \/ ColWall(x, y) \/ HouseWall(x, y)

InHouseRegion(x, y) == 13 <= y /\ y <= 15 /\ 10 <= x /\ x <= 17

PowerCells == {<<1, 3>>, <<GRID_W - 2, 3>>, <<1, GRID_H - 4>>, <<GRID_W - 2, GRID_H - 4>>}

\* the cell generate_level leaves at (x, y) before any glitch: 0 empty, 1 wall,
\* 2 pellet, 3 power pellet
BaseCell(x, y) ==
  IF BaseWall(x, y) THEN 1
  ELSE IF InHouseRegion(x, y) THEN 0
  ELSE IF <<x, y>> \in PowerCells THEN 3
  ELSE 2

BaseMaze == [y \in 1..GRID_H |-> [x \in 1..GRID_W |-> BaseCell(x - 1, y - 1)]]

RECURSIVE SumSeq(_)
SumSeq(s) == IF s = <<>> THEN 0 ELSE Head(s) + SumSeq(Tail(s))

\* total_pellets: the pellets and power pellets counted before any glitch
CountPellets(m) ==
  SumSeq([y \in 1..GRID_H |-> Cardinality({x \in 1..GRID_W : m[y][x] \in {2, 3}})])

TotalPellets == CountPellets(BaseMaze)

\* the scatter / chase timeline of a level: <<mode, duration in ms>>; the last
\* entry carries the program's duration -1 (seconds)
Timeline(lv) ==
  IF lv = 1
  THEN << <<"scatter", 7000>>, <<"chase", 20000>>, <<"scatter", 7000>>, <<"chase", 20000>>,
          <<"scatter", 5000>>, <<"chase", 20000>>, <<"scatter", 5000>>, <<"chase", -1000>> >>
  ELSE << <<"scatter", 5000>>, <<"chase", 20000>>, <<"scatter", 5000>>, <<"chase", 20000>>,
          <<"scatter", 5000>>, <<"chase", 20000>>, <<"scatter", 5000>>, <<"chase", -1000>> >>

\* 1.18 * ghost_pct in 1/100 unit per ms, ghost_pct = min(1.0 + (level-1)*0.05, 1.6)
GhostSpeed(lv) == Min(236000 + 11800 * (lv - 1), 377600)

\* one draw of the glitch loop: the cell (rx, ry) and the value random.choice
\* returns for it; a wall is never changed
ApplyDraw(m, d) ==
  IF m[d[2] + 1][d[1] + 1] # 1 THEN [m EXCEPT ![d[2] + 1][d[1] + 1] = d[3]] ELSE m

RECURSIVE ApplyDraws(_, _)
ApplyDraws(m, ds) == IF ds = <<>> THEN m ELSE ApplyDraws(ApplyDraw(m, Head(ds)), Tail(ds))

\* generate_level(level, glitch): draws is the sequence of glitch draws that
\* change the maze (empty when glitch is off)
generate_level(lv, glitch, draws) ==
  [ maze |-> IF glitch THEN ApplyDraws(BaseMaze, draws) ELSE BaseMaze,
    dots_eaten |-> 0,
    total_pellets |-> TotalPellets,
    frightened_timer |-> 0,
    mode_timeline |-> Timeline(lv),
    mode_index |-> 0,
    current_mode |-> Timeline(lv)[1][1],
    mode_timer |-> Timeline(lv)[1][2],
    fruit |-> [spawned |-> 0, spawns_per_level |-> 2, active |-> FALSE, timer |-> 0, points |-> 100],
    level |-> lv ]

\* Player.__init__
NewPlayer ==
  [ x |-> 13 * U + HalfU, y |-> 23 * U + HalfU, score |-> 0, lives |-> 3,
    eat_ghost_combo |-> 0, direction |-> NoDir, next_direction |-> NoDir ]

\* the player's speed 1.0 * 5 tiles per second, in units per ms
PlayerSpeed == 2000

\* Ghost.__init__
NewGhost(gx, gy, spd) ==
  [ x |-> gx, y |-> gy, speed |-> spd, mode |-> "scatter", frightened |-> FALSE,
    eaten |-> FALSE, home_time |-> 0, dir |-> NoDir,
    elroy1_done |-> FALSE, elroy2_done |-> FALSE ]

\* the scatter corner of each pursuer, in tiles (Blinky, Pinky, Inky, Clyde)
ScatterTarget == << <<GRID_W - 3, 3>>, <<3, 3>>, <<GRID_W - 3, GRID_H - 3>>, <<3, GRID_H - 3>> >>

\* the home-release countdowns set at level start and after a life loss
HomeTimes(lv) == IF lv > 1 THEN <<0, 2000, 4000, 6000>> ELSE <<0, 4000, 8000, 12000>>

StartGhosts(lv) ==
  LET sp == GhostSpeed(lv)
      gs == << NewGhost(13 * U + HalfU, 11 * U + HalfU, sp),
               NewGhost(12 * U, 14 * U, sp),
               NewGhost(13 * U + HalfU, 14 * U, sp),
               NewGhost(15 * U, 14 * U, sp) >>
  IN  [i \in 1..4 |-> [gs[i] EXCEPT !.home_time = HomeTimes(lv)[i]]]

-----------------------------------------------------------------------------
(* Distances.  math.hypot(dx, dy) is compared through dx^2 + dy^2, which    *)
(* orders the same way; the sum of squares is kept as <<hi, lo>> with value *)
(* hi * 10^8 + lo so that no intermediate result leaves 32 bits.            *)

SumSq(dx, dy) ==
  LET a1 == Abs(dx) \div 10000
      b1 == Abs(dx) % 10000
      a2 == Abs(dy) \div 10000
      b2 == Abs(dy) % 10000
      bb == 2 * a1 * b1 + 2 * a2 * b2
      low == (bb % 10000) * 10000 + b1 * b1 + b2 * b2
  IN  << a1 * a1 + a2 * a2 + bb \div 10000 + low \div 100000000, low % 100000000 >>

SqLess(s, t) == s[1] < t[1] \/ (s[1] = t[1] /\ s[2] < t[2])

\* math.hypot(dx, dy) < 0.5
Near(dx, dy) == SqLess(SumSq(dx, dy), <<400, 0>>)

\* math.hypot(dx, dy) > 8
Far8(dx, dy) == SqLess(<<102400, 0>>, SumSq(dx, dy))

InGrid(gx, gy) == 0 <= gx /\ gx < GRID_W /\ 0 <= gy /\ gy < GRID_H

\* 0 <= gx < GRID_W and 0 <= gy < GRID_H and maze[gy][gx] != 1, for the tile
\* of the position (vx, vy)
Open(m, vx, vy) ==
  LET gx == Tile(vx)
      gy == Tile(vy)
  IN  InGrid(gx, gy) /\ m[gy + 1][gx + 1] # 1

\* the horizontal wrap both agents apply after moving
Wrap(vx) == IF vx < 0 THEN (GRID_W - 1) * U ELSE IF vx >= GRID_W * U THEN 0 ELSE vx

-----------------------------------------------------------------------------
(* Player.update                                                            *)

Keys == {"none", "up", "down", "left", "right"}

KeyDir(key) ==
  CASE key = "up" -> DUp
    [] key = "down" -> DDown
    [] key = "left" -> DLeft
    [] key = "right" -> DRight

\* the input latch, the turn, the move with its snap, and the wrap
PlayerMove(p, m, key, dt) ==
  LET nd == IF key = "none" THEN p.next_direction ELSE KeyDir(key)
      dir == IF nd # NoDir /\ Open(m, p.x + nd[1] * HalfU, p.y + nd[2] * HalfU)
             THEN nd ELSE p.direction
      new_x == p.x + dir[1] * PlayerSpeed * dt
      new_y == p.y + dir[2] * PlayerSpeed * dt
      ax == PyRound(p.x)
      ay == PyRound(p.y)
      pos == IF dir = NoDir THEN <<p.x, p.y>>
             ELSE IF Open(m, new_x, new_y) THEN <<new_x, new_y>>
             ELSE IF InGrid(ax, ay) /\ m[ay + 1][ax + 1] # 1 THEN <<ax * U, ay * U>>
             ELSE <<p.x, p.y>>
  IN  [p EXCEPT !.next_direction = nd, !.direction = dir, !.x = Wrap(pos[1]), !.y = pos[2]]

\* the cell under the player after the move, 0 when the tile is off the grid
CellUnder(p, m) ==
  IF InGrid(Tile(p.x), Tile(p.y)) THEN m[Tile(p.y) + 1][Tile(p.x) + 1] ELSE 0

\* the duration a power pellet arms the frightened countdown with
PowerDuration(ld) == frightened_duration_for_level(ld.level)

\* "Eat dots / power": the player and the level data after the bite
PlayerEat(p, ld) ==
  LET cell == CellUnder(p, ld.maze)
      gx == Tile(p.x)
      gy == Tile(p.y)
  IN  IF cell = 2
      THEN << [p EXCEPT !.score = @ + 10],
              [ld EXCEPT !.maze[gy + 1][gx + 1] = 0, !.dots_eaten = @ + 1] >>
      ELSE IF cell = 3
      THEN << [p EXCEPT !.score = @ + 50, !.eat_ghost_combo = 0],
              [ld EXCEPT !.maze[gy + 1][gx + 1] = 0, !.dots_eaten = @ + 1,
                         !.frightened_timer = PowerDuration(ld)] >>
      ELSE << p, ld >>

\* Player.update: << player, level_data >> after the call
PlayerUpdate(p, ld, key, dt) == PlayerEat(PlayerMove(p, ld.maze, key, dt), ld)

-----------------------------------------------------------------------------
(* The target functions                                                     *)

blinky_target(p, g, gs) == <<p.x, p.y>>

pinky_target(p, g, gs) ==
  LET ax == p.x + p.direction[1] * 4 * U - (IF p.direction = DUp THEN 4 * U ELSE 0)
      ay == p.y + p.direction[2] * 4 * U
  IN  << clamp(ax, 0, (GRID_W - 1) * U), clamp(ay, 0, (GRID_H - 1) * U) >>

inky_target(p, g, gs) ==
  LET ax == p.x + p.direction[1] * 2 * U
      ay == p.y + p.direction[2] * 2 * U
      tx == ax + (ax - gs[1].x)
      ty == ay + (ay - gs[1].y)
  IN  << clamp(tx, 0, (GRID_W - 1) * U), clamp(ty, 0, (GRID_H - 1) * U) >>

clyde_target(p, g, gs) ==
  IF Far8(g.x - p.x, g.y - p.y) THEN <<p.x, p.y>>
  ELSE << ScatterTarget[4][1] * U, ScatterTarget[4][2] * U >>

\* target_func of pursuer i
TargetFunc(i, p, g, gs) ==
  CASE i = 1 -> blinky_target(p, g, gs)
    [] i = 2 -> pinky_target(p, g, gs)
    [] i = 3 -> inky_target(p, g, gs)
    [] i = 4 -> clyde_target(p, g, gs)

-----------------------------------------------------------------------------
(* Ghost.update                                                             *)

\* the home tile an eaten pursuer returns to, (13.5, 14.0)
HomeX == 13 * U + HalfU
HomeY == 14 * U

Opposite(d) == << -d[1], -d[2] >>

\* "Don't reverse except when blocked": the loop over the possible directions,
\* from the k-th on; best is << best_dir, found, best squared distance >>
RECURSIVE BestDir(_, _, _, _, _, _)
BestDir(g, m, tx, ty, k, best) ==
  IF k > 4 THEN best[1]
  ELSE LET d == DirOrder[k]
           nx == g.x + d[1] * U
           ny == g.y + d[2] * U
           sq == SumSq(nx - tx, ny - ty)
           skip == g.dir # NoDir /\ d = Opposite(g.dir)
           better == ~skip /\ Open(m, nx, ny) /\ (~best[2] \/ SqLess(sq, best[3]))
       IN  BestDir(g, m, tx, ty, k + 1, IF better THEN <<d, TRUE, sq>> ELSE best)

\* spd = self.speed * dt * 5, halved when frightened, doubled when eaten, in
\* units (speed is in 1/100 unit per ms)
StepLen(g, dt) ==
  LET q == (g.speed \div 100) * dt
      r == (g.speed % 100) * dt
  IN  IF g.frightened /\ g.eaten THEN q + r \div 100
      ELSE IF g.frightened THEN q \div 2 + ((q % 2) * 100 + r) \div 200
      ELSE IF g.eaten THEN 2 * q + (2 * r) \div 100
      ELSE q + r \div 100

\* "Move": the step along self.dir, taken when the destination tile is open
GhostMove(g, m, dt) ==
  LET spd == StepLen(g, dt)
      nx == g.x + g.dir[1] * spd
      ny == g.y + g.dir[2] * spd
      pos == IF Open(m, nx, ny) THEN <<nx, ny>> ELSE <<g.x, g.y>>
  IN  [g EXCEPT !.x = Wrap(pos[1]), !.y = pos[2]]

\* one frightened pursuer's random draw: turn is random.random() < 0.05, pick
\* is what random.choice returns when it is called
Draws == {[turn |-> FALSE, pick |-> DUp]} \cup {[turn |-> TRUE, pick |-> DirOrder[k]] : k \in 1..4}

\* Ghost.update of pursuer i; gs are the pursuers as the loop has left them
GhostUpdate(g, i, m, p, gs, dt, draw) ==
  IF g.eaten
  THEN IF Near(g.x - HomeX, g.y - HomeY)
       THEN [g EXCEPT !.eaten = FALSE, !.x = HomeX, !.y = HomeY, !.dir = DUp]
       ELSE GhostMove(g, m, dt)
  ELSE IF g.frightened
  THEN GhostMove([g EXCEPT !.dir = IF draw.turn \/ g.dir = NoDir THEN draw.pick ELSE @], m, dt)
  ELSE LET t == IF g.mode = "scatter"
                THEN << ScatterTarget[i][1] * U, ScatterTarget[i][2] * U >>
                ELSE TargetFunc(i, p, g, gs)
       IN  GhostMove([g EXCEPT !.dir = BestDir(g, m, t[1], t[2], 1, <<g.dir, FALSE, <<0, 0>> >>)], m, dt)

\* the frightened flag the loop gives a pursuer before its update
FrightenedFlag(ld) == ld.frightened_timer > 0

\* a pass that sets the mode and the frightened flag before the countdown test
GhostStepFlagsFirst(g, i, ld, p, gs, dt, draw) ==
  IF g.home_time > 0
  THEN [g EXCEPT !.mode = ld.current_mode, !.frightened = FrightenedFlag(ld),
                 !.home_time = @ - dt]
  ELSE GhostUpdate([g EXCEPT !.mode = ld.current_mode, !.frightened = FrightenedFlag(ld)],
                   i, ld.maze, p, gs, dt, draw)

\* one pass of "for g in ghosts" for pursuer i
GhostStep(g, i, ld, p, gs, dt, draw) ==
  IF g.home_time > 0
  THEN [g EXCEPT !.home_time = @ - dt]
  ELSE GhostUpdate([g EXCEPT !.mode = ld.current_mode, !.frightened = FrightenedFlag(ld)],
                   i, ld.maze, p, gs, dt, draw)

\* the whole loop, pursuers i..4
RECURSIVE GhostLoop(_, _, _, _, _, _)
GhostLoop(gs, i, ld, p, dt, draw) ==
  IF i > 4 THEN gs
  ELSE GhostLoop([gs EXCEPT ![i] = GhostStep(gs[i], i, ld, p, gs, dt, draw)], i + 1, ld, p, dt, draw)

-----------------------------------------------------------------------------
(* The timers of a play frame                                               *)

\* the mode timer tick of a timeline that starts again after its last entry
ModeTickWraps(ld, dt) ==
  LET t == ld.mode_timer - dt
      ix == (ld.mode_index + 1) % Len(ld.mode_timeline)
  IN  IF t <= 0
      THEN [ld EXCEPT !.mode_index = ix, !.current_mode = ld.mode_timeline[ix + 1][1],
                      !.mode_timer = ld.mode_timeline[ix + 1][2]]
      ELSE [ld EXCEPT !.mode_timer = t]

\* the mode timer tick
ModeTick(ld, dt) ==
  LET t == ld.mode_timer - dt
      ix == ld.mode_index + 1
  IN  IF t <= 0
      THEN IF ix < Len(ld.mode_timeline)
           THEN [ld EXCEPT !.mode_index = ix, !.current_mode = ld.mode_timeline[ix + 1][1],
                           !.mode_timer = ld.mode_timeline[ix + 1][2]]
           ELSE [ld EXCEPT !.mode_index = ix, !.mode_timer = t]
      ELSE [ld EXCEPT !.mode_timer = t]

\* a tick that subtracts the frame time whatever the countdown is
FrightTickUnclamped(ld, dt) == [ld EXCEPT !.frightened_timer = @ - dt]

\* the frightened timer tick
FrightTick(ld, dt) ==
  IF ld.frightened_timer > 0
  THEN [ld EXCEPT !.frightened_timer = Max(0, @ - dt)]
  ELSE ld

-----------------------------------------------------------------------------
(* The fruit, the bonus life and the high score                             *)

FruitSpawnDots == {70, 170}
FruitValues == <<100, 300, 500, 700, 1000, 2000, 3000, 5000>>
FruitX == 13 * U + HalfU
FruitY == 17 * U

\* the spawn test: a spawn count, and room for another spawn in this level
FruitSpawns(ld) ==
  ld.dots_eaten \in FruitSpawnDots /\ ld.fruit.spawned < ld.fruit.spawns_per_level

\* "Fruit system": << player, level_data >> after it; fr is the fraction of
\* a second random.random() adds to the fruit's lifetime, in ms
FruitStep(p, ld, lv, dt, fr) ==
  LET f1 == IF FruitSpawns(ld)
            THEN [ld.fruit EXCEPT !.active = TRUE, !.timer = 9000 + fr, !.spawned = @ + 1,
                                  !.points = FruitValues[Min(lv - 1, Len(FruitValues) - 1) + 1]]
            ELSE ld.fruit
      t == f1.timer - dt
      eat == Near(p.x - FruitX, p.y - FruitY)
      f2 == IF f1.active
            THEN [f1 EXCEPT !.timer = t, !.active = ~(t <= 0) /\ ~eat]
            ELSE f1
  IN  << IF f1.active /\ eat THEN [p EXCEPT !.score = @ + f1.points] ELSE p,
         [ld EXCEPT !.fruit = f2] >>

BonusLifeScore == 10000

\* the bonus-life check without the one-shot flag
BonusLifeEveryFrame(p, awarded) ==
  IF p.score >= BonusLifeScore
  THEN << [p EXCEPT !.lives = @ + 1], TRUE >>
  ELSE << p, awarded >>

\* "Check for bonus life": << player, bonus_life_awarded >> after it
BonusLife(p, awarded) ==
  IF p.score >= BonusLifeScore /\ ~awarded
  THEN << [p EXCEPT !.lives = @ + 1], TRUE >>
  ELSE << p, awarded >>

\* "Update high score"
HighScore(p, high) == IF p.score > high THEN p.score ELSE high

-----------------------------------------------------------------------------
(* Collisions with ghosts                                                   *)

\* ghost_points = (2 ** player.eat_ghost_combo) * 200
GhostPoints(combo) == (2 ^ combo) * 200

\* the places the pursuers are put back to after a life loss
RespawnX == <<13 * U + HalfU, 12 * U, 13 * U + HalfU, 15 * U>>
RespawnY == <<14 * U, 14 * U, 14 * U, 14 * U>>
RespawnHomeTimes(lv) == IF lv > 1 THEN <<0, 2000, 4000, 6000>> ELSE <<0, 4000, 8000, 12000>>

\* "respawn with brief invulnerability": what the else branch of a life loss
\* does to one pursuer
RespawnGhost(g, idx, lv) ==
  [g EXCEPT !.x = RespawnX[idx], !.y = RespawnY[idx], !.eaten = FALSE,
            !.dir = IF idx = 1 THEN DUp ELSE NoDir,
            !.home_time = RespawnHomeTimes(lv)[idx]]

\* the capture branch for pursuer i
Capture(c, i) ==
  LET pts == GhostPoints(c.p.eat_ghost_combo)
  IN  [c EXCEPT !.gs[i].eaten = TRUE,
                !.p.score = @ + pts,
                !.p.eat_ghost_combo = @ + 1,
                !.captures = Append(@, pts)]

\* the life-loss branch
LoseLife(c, lv) ==
  LET lives == c.p.lives - 1
  IN  IF lives <= 0
      THEN [c EXCEPT !.p.lives = lives, !.state = "over", !.lost = @ + 1]
      ELSE [c EXCEPT !.p.lives = lives, !.lost = @ + 1,
                     !.p.x = 13 * U + HalfU, !.p.y = 23 * U + HalfU,
                     !.gs = [idx \in 1..4 |-> RespawnGhost(c.gs[idx], idx, lv)],
                     !.ld.frightened_timer = 0]

\* a pass that tests only the frightened flag before a capture
CollideOneRecaptures(c, i, lv) ==
  LET g == c.gs[i]
  IN  IF Near(c.p.x - g.x, c.p.y - g.y)
      THEN IF g.frightened THEN Capture(c, i)
           ELSE IF ~g.eaten /\ ~g.frightened THEN LoseLife(c, lv)
           ELSE c
      ELSE c

\* one pass of the collision loop, for pursuer i
CollideOne(c, i, lv) ==
  LET g == c.gs[i]
  IN  IF Near(c.p.x - g.x, c.p.y - g.y)
      THEN IF g.frightened /\ ~g.eaten THEN Capture(c, i)
           ELSE IF ~g.eaten /\ ~g.frightened THEN LoseLife(c, lv)
           ELSE c
      ELSE c

RECURSIVE Collisions(_, _, _)
Collisions(c, i, lv) == IF i > 4 THEN c ELSE Collisions(CollideOne(c, i, lv), i + 1, lv)

\* the loop after its first k passes, and what the passes can change
RECURSIVE Pass(_, _, _)
Pass(c, k, lv) == IF k = 0 THEN c ELSE CollideOne(Pass(c, k - 1, lv), k, lv)

PassView(c) == [p |-> c.p, gs |-> c.gs, state |-> c.state, timer |-> c.ld.frightened_timer]

-----------------------------------------------------------------------------
(* Level clear and Elroy                                                    *)

LastLevel == 256

\* the level-clear test on the dots_eaten value read before the fruit system
LevelClear(dots_eaten, ld) == dots_eaten >= ld.total_pellets

LevelBonus(lv) == 100 * lv

\* a variant without the wrap, against which C7 is compared
NextLevelNoWrap(lv) == lv + 1

NextLevel(lv) == IF lv + 1 > LastLevel THEN 1 ELSE lv + 1

\* "forced_glitch = glitch_override or (level >= 256)"
ForcedGlitch(override, lv) == override \/ lv >= LastLevel

\* the outcomes of the glitch loop a reset may draw: each is the sequence of
\* draws that change a cell (the other draws of the sixty fall on walls)
GlitchOutcomes == { <<>>, << <<13, 23, 1>> >>, << <<13, 22, 0>>, <<13, 14, 2>> >> }

\* the outcomes open to a reset_level() under the override flag o at level lv
DrawsFor(o, lv) == IF ForcedGlitch(o, lv) THEN GlitchOutcomes ELSE { <<>> }

\* "Blinky Elroy": the lead pursuer after the two threshold tests
\* the multipliers without the one-shot markers
ElroyEveryFrame(g, remaining) ==
  LET g1 == IF remaining = 20
            THEN [g EXCEPT !.speed = (@ * 21) \div 20, !.elroy1_done = TRUE] ELSE g
  IN  IF remaining = 10
      THEN [g1 EXCEPT !.speed = (@ * 21) \div 20, !.elroy2_done = TRUE] ELSE g1

Elroy(g, remaining) ==
  LET g1 == IF remaining = 20 /\ ~g.elroy1_done
            THEN [g EXCEPT !.speed = (@ * 21) \div 20, !.elroy1_done = TRUE] ELSE g
  IN  IF remaining = 10 /\ ~g1.elroy2_done
      THEN [g1 EXCEPT !.speed = (@ * 21) \div 20, !.elroy2_done = TRUE] ELSE g1

-----------------------------------------------------------------------------
(* The state of run_game                                                    *)

VARIABLES
  state,               \* "title", "ready", "play" or "over"
  paused,
  ready_timer,         \* ms
  level,
  glitch_override,
  high_score,
  bonus_life_awarded,
  player,
  ghosts,              \* Blinky, Pinky, Inky, Clyde
  level_data,
  frames,              \* iterations of the main loop taken so far
  key_presses,         \* key presses taken so far
  ev,                  \* what the last step did (history, never read by the program)
  hist                 \* what has happened since the last power pellet (history)

vars == << state, paused, ready_timer, level, glitch_override, high_score,
           bonus_life_awarded, player, ghosts, level_data, frames, key_presses, ev, hist >>

\* what the encounter resolver sees of the pursuers when its loop starts
Seen(gs) == [i \in 1..4 |-> [frightened |-> gs[i].frightened, eaten |-> gs[i].eaten,
                             home |-> gs[i].home_time > 0]]

\* the history record of a step that ran no play frame, in the game state
\* st at level lv with the player p, the pursuers gs and the level data ld
EvOf(st, lv, p, gs, ld) ==
  [ played |-> FALSE, reset |-> FALSE, dt |-> 0, level |-> lv,
    mode_index |-> ld.mode_index, combo |-> p.eat_ghost_combo,
    ate |-> "none", armed |-> ld.frightened_timer, combo_eat |-> p.eat_ghost_combo,
    seen |-> Seen(gs), captures |-> <<>>, lost |-> 0, lives |-> p.lives,
    over |-> (st = "over"), cleared |-> FALSE, dots |-> ld.dots_eaten,
    total |-> ld.total_pellets, pre_clear_score |-> p.score,
    clear_score |-> p.score, pre_clear_combo |-> p.eat_ghost_combo,
    p0 |-> p, p1 |-> p, mode |-> ld.current_mode, timer |-> ld.frightened_timer,
    g0 |-> gs, g1 |-> gs, spawn |-> FALSE, bonus |-> 0, bonus_score |-> p.score,
    passes |-> [k \in 1..5 |-> [p |-> p, gs |-> gs, state |-> st,
                                timer |-> ld.frightened_timer]],
    left |-> CountPellets(ld.maze) ]

NoEv == EvOf(state, level, player, ghosts, level_data)

\* the history at the start of a game
NoHist == [ caps |-> 0, since_loss |-> FALSE, awards |-> 0, spawns |-> <<>> ]

\* reset_level(): << player, ghosts, level_data >>
reset_level(lv, override, draws) ==
  << NewPlayer, StartGhosts(lv), generate_level(lv, ForcedGlitch(override, lv), draws) >>

\* the cells of a set emptied, as the player's bites leave them
Eaten(m, cells) ==
  [y \in 1..GRID_H |-> [x \in 1..GRID_W |-> IF <<x - 1, y - 1>> \in cells THEN 0 ELSE m[y][x]]]

\* the cells x1..x2 of row y
Seg(y, x1, x2) == {<<x, y>> : x \in x1..x2}

\* the state run_game builds before its loop starts
Construction ==
  [ state |-> "title", paused |-> FALSE, ready_timer |-> 0, level |-> 1,
    glitch_override |-> FALSE, high_score |-> 0, bonus_life_awarded |-> FALSE,
    player |-> reset_level(1, FALSE, <<>>)[1],
    ghosts |-> reset_level(1, FALSE, <<>>)[2],
    level_data |-> reset_level(1, FALSE, <<>>)[3],
    hist |-> NoHist ]

-----------------------------------------------------------------------------
(* Recorded states: the states the loop is in at chosen frames of a game     *)
(* played with 50 ms frames, in which every level is cleared by walking the  *)
(* maze and by crossing the walls of the closed pockets of row 3 in frames   *)
(* of 1800 ms.                                                               *)

\* The last frame of the "ready" countdown of a new game: SPACE on the title
\* screen, a 50 ms frame, seven 200 ms frames.
S_ready ==
  [ state |-> "ready", paused |-> FALSE, ready_timer |-> 150, level |-> 1,
    glitch_override |-> FALSE, high_score |-> 0, bonus_life_awarded |-> FALSE,
    player |-> [ x |-> 13 * U + HalfU, y |-> 23 * U + HalfU, score |-> 0, lives |-> 3, eat_ghost_combo |-> 0,
                 direction |-> NoDir, next_direction |-> NoDir ],
    ghosts |-> <<
         [ x |-> 13 * U + HalfU, y |-> 11 * U + HalfU, speed |-> 236000, mode |-> "scatter", frightened |-> FALSE,
           eaten |-> FALSE, home_time |-> 0, dir |-> NoDir,
           elroy1_done |-> FALSE, elroy2_done |-> FALSE ],
         [ x |-> 12 * U, y |-> 14 * U, speed |-> 236000, mode |-> "scatter", frightened |-> FALSE,
           eaten |-> FALSE, home_time |-> 4000, dir |-> NoDir,
           elroy1_done |-> FALSE, elroy2_done |-> FALSE ],
         [ x |-> 13 * U + HalfU, y |-> 14 * U, speed |-> 236000, mode |-> "scatter", frightened |-> FALSE,
           eaten |-> FALSE, home_time |-> 8000, dir |-> NoDir,
           elroy1_done |-> FALSE, elroy2_done |-> FALSE ],
         [ x |-> 15 * U, y |-> 14 * U, speed |-> 236000, mode |-> "scatter", frightened |-> FALSE,
           eaten |-> FALSE, home_time |-> 12000, dir |-> NoDir,
           elroy1_done |-> FALSE, elroy2_done |-> FALSE ] >>,
    level_data |->
      [ maze |-> BaseMaze,
        dots_eaten |-> 0, total_pellets |-> TotalPellets,
        frightened_timer |-> 0, mode_timeline |-> Timeline(1), mode_index |-> 0,
        current_mode |-> "scatter", mode_timer |-> 7000,
        fruit |-> [spawned |-> 0, spawns_per_level |-> 2, active |-> FALSE, timer |-> 0, points |-> 100],
        level |-> 1 ],
    hist |-> [ caps |-> 0, since_loss |-> FALSE, awards |-> 0, spawns |-> <<  >> ] ]

\* Level 1, 3 s into play: the player has walked from its start down to row 26,
\* left to column 1 and down, and is one step above the power pellet at (1, 27).
S_pp1 ==
  [ state |-> "play", paused |-> FALSE, ready_timer |-> -50, level |-> 1,
    glitch_override |-> FALSE, high_score |-> 160, bonus_life_awarded |-> FALSE,
    player |-> [ x |-> 1 * U + HalfU, y |-> 10700000, score |-> 160, lives |-> 3, eat_ghost_combo |-> 0,
                 direction |-> DDown, next_direction |-> DDown ],
    ghosts |-> <<
         [ x |-> 13 * U + HalfU, y |-> 11 * U + HalfU, speed |-> 236000, mode |-> "scatter", frightened |-> FALSE,
           eaten |-> FALSE, home_time |-> 0, dir |-> DUp,
           elroy1_done |-> FALSE, elroy2_done |-> FALSE ],
         [ x |-> 12 * U, y |-> 14 * U, speed |-> 236000, mode |-> "scatter", frightened |-> FALSE,
           eaten |-> FALSE, home_time |-> 950, dir |-> NoDir,
           elroy1_done |-> FALSE, elroy2_done |-> FALSE ],
         [ x |-> 13 * U + HalfU, y |-> 14 * U, speed |-> 236000, mode |-> "scatter", frightened |-> FALSE,
           eaten |-> FALSE, home_time |-> 4950, dir |-> NoDir,
           elroy1_done |-> FALSE, elroy2_done |-> FALSE ],
         [ x |-> 15 * U, y |-> 14 * U, speed |-> 236000, mode |-> "scatter", frightened |-> FALSE,
           eaten |-> FALSE, home_time |-> 8950, dir |-> NoDir,
           elroy1_done |-> FALSE, elroy2_done |-> FALSE ] >>,
    level_data |->
      [ maze |-> Eaten(BaseMaze,
                  Seg(23, 13, 13) \cup Seg(24, 13, 13) \cup Seg(25, 13, 13) \cup Seg(26, 1, 13)),
        dots_eaten |-> 16, total_pellets |-> TotalPellets,
        frightened_timer |-> 0, mode_timeline |-> Timeline(1), mode_index |-> 0,
        current_mode |-> "scatter", mode_timer |-> 3950,
        fruit |-> [spawned |-> 0, spawns_per_level |-> 2, active |-> FALSE, timer |-> 0, points |-> 100],
        level |-> 1 ],
    hist |-> [ caps |-> 0, since_loss |-> FALSE, awards |-> 0, spawns |-> <<  >> ] ]

\* Level 5, 3 s into play: the player is one step above the power pellet at (1, 27).
S_pp5 ==
  [ state |-> "play", paused |-> FALSE, ready_timer |-> -100, level |-> 5,
    glitch_override |-> FALSE, high_score |-> 6340, bonus_life_awarded |-> FALSE,
    player |-> [ x |-> 1 * U + HalfU, y |-> 10700000, score |-> 160, lives |-> 3, eat_ghost_combo |-> 0,
                 direction |-> DDown, next_direction |-> DDown ],
    ghosts |-> <<
         [ x |-> 13 * U + HalfU, y |-> 11 * U + HalfU, speed |-> 283200, mode |-> "scatter", frightened |-> FALSE,
           eaten |-> FALSE, home_time |-> 0, dir |-> DUp,
           elroy1_done |-> FALSE, elroy2_done |-> FALSE ],
         [ x |-> 4516800, y |-> 14 * U, speed |-> 283200, mode |-> "scatter", frightened |-> FALSE,
           eaten |-> FALSE, home_time |-> 0, dir |-> DLeft,
           elroy1_done |-> FALSE, elroy2_done |-> FALSE ],
         [ x |-> 13 * U + HalfU, y |-> 14 * U, speed |-> 283200, mode |-> "scatter", frightened |-> FALSE,
           eaten |-> FALSE, home_time |-> 950, dir |-> NoDir,
           elroy1_done |-> FALSE, elroy2_done |-> FALSE ],
         [ x |-> 15 * U, y |-> 14 * U, speed |-> 283200, mode |-> "scatter", frightened |-> FALSE,
           eaten |-> FALSE, home_time |-> 2950, dir |-> NoDir,
           elroy1_done |-> FALSE, elroy2_done |-> FALSE ] >>,
    level_data |->
      [ maze |-> Eaten(BaseMaze,
                  Seg(23, 13, 13) \cup Seg(24, 13, 13) \cup Seg(25, 13, 13) \cup Seg(26, 1, 13)),
        dots_eaten |-> 16, total_pellets |-> TotalPellets,
        frightened_timer |-> 0, mode_timeline |-> Timeline(5), mode_index |-> 0,
        current_mode |-> "scatter", mode_timer |-> 1950,
        fruit |-> [spawned |-> 0, spawns_per_level |-> 2, active |-> FALSE, timer |-> 0, points |-> 100],
        level |-> 5 ],
    hist |-> [ caps |-> 0, since_loss |-> FALSE, awards |-> 0, spawns |-> <<  >> ] ]

\* Level 9, 3 s into play: the player is one step above the power pellet at (1, 27).
S_pp9 ==
  [ state |-> "play", paused |-> FALSE, ready_timer |-> -100, level |-> 9,
    glitch_override |-> FALSE, high_score |-> 6740, bonus_life_awarded |-> FALSE,
    player |-> [ x |-> 1 * U + HalfU, y |-> 10700000, score |-> 160, lives |-> 3, eat_ghost_combo |-> 0,
                 direction |-> DDown, next_direction |-> DDown ],
    ghosts |-> <<
         [ x |-> 13 * U + HalfU, y |-> 11 * U + HalfU, speed |-> 330400, mode |-> "scatter", frightened |-> FALSE,
           eaten |-> FALSE, home_time |-> 0, dir |-> DUp,
           elroy1_done |-> FALSE, elroy2_done |-> FALSE ],
         [ x |-> 4469600, y |-> 14 * U, speed |-> 330400, mode |-> "scatter", frightened |-> FALSE,
           eaten |-> FALSE, home_time |-> 0, dir |-> DLeft,
           elroy1_done |-> FALSE, elroy2_done |-> FALSE ],
         [ x |-> 13 * U + HalfU, y |-> 14 * U, speed |-> 330400, mode |-> "scatter", frightened |-> FALSE,
           eaten |-> FALSE, home_time |-> 950, dir |-> NoDir,
           elroy1_done |-> FALSE, elroy2_done |-> FALSE ],
         [ x |-> 15 * U, y |-> 14 * U, speed |-> 330400, mode |-> "scatter", frightened |-> FALSE,
           eaten |-> FALSE, home_time |-> 2950, dir |-> NoDir,
           elroy1_done |-> FALSE, elroy2_done |-> FALSE ] >>,
    level_data |->
      [ maze |-> Eaten(BaseMaze,
                  Seg(23, 13, 13) \cup Seg(24, 13, 13) \cup Seg(25, 13, 13) \cup Seg(26, 1, 13)),
        dots_eaten |-> 16, total_pellets |-> TotalPellets,
        frightened_timer |-> 0, mode_timeline |-> Timeline(9), mode_index |-> 0,
        current_mode |-> "scatter", mode_timer |-> 1950,
        fruit |-> [spawned |-> 0, spawns_per_level |-> 2, active |-> FALSE, timer |-> 0, points |-> 100],
        level |-> 9 ],
    hist |-> [ caps |-> 0, since_loss |-> FALSE, awards |-> 0, spawns |-> <<  >> ] ]

\* Level 21, 3 s into play: the player is one step above the power pellet at (1, 27).
S_pp21 ==
  [ state |-> "play", paused |-> FALSE, ready_timer |-> -100, level |-> 21,
    glitch_override |-> FALSE, high_score |-> 10740, bonus_life_awarded |-> TRUE,
    player |-> [ x |-> 1 * U + HalfU, y |-> 10700000, score |-> 160, lives |-> 3, eat_ghost_combo |-> 0,
                 direction |-> DDown, next_direction |-> DDown ],
    ghosts |-> <<
         [ x |-> 13 * U + HalfU, y |-> 11 * U + HalfU, speed |-> 377600, mode |-> "scatter", frightened |-> FALSE,
           eaten |-> FALSE, home_time |-> 0, dir |-> DUp,
           elroy1_done |-> FALSE, elroy2_done |-> FALSE ],
         [ x |-> 4422400, y |-> 14 * U, speed |-> 377600, mode |-> "scatter", frightened |-> FALSE,
           eaten |-> FALSE, home_time |-> 0, dir |-> DLeft,
           elroy1_done |-> FALSE, elroy2_done |-> FALSE ],
         [ x |-> 13 * U + HalfU, y |-> 14 * U, speed |-> 377600, mode |-> "scatter", frightened |-> FALSE,
           eaten |-> FALSE, home_time |-> 950, dir |-> NoDir,
           elroy1_done |-> FALSE, elroy2_done |-> FALSE ],
         [ x |-> 15 * U, y |-> 14 * U, speed |-> 377600, mode |-> "scatter", frightened |-> FALSE,
           eaten |-> FALSE, home_time |-> 2950, dir |-> NoDir,
           elroy1_done |-> FALSE, elroy2_done |-> FALSE ] >>,
    level_data |->
      [ maze |-> Eaten(BaseMaze,
                  Seg(23, 13, 13) \cup Seg(24, 13, 13) \cup Seg(25, 13, 13) \cup Seg(26, 1, 13)),
        dots_eaten |-> 16, total_pellets |-> TotalPellets,
        frightened_timer |-> 0, mode_timeline |-> Timeline(21), mode_index |-> 0,
        current_mode |-> "scatter", mode_timer |-> 1950,
        fruit |-> [spawned |-> 0, spawns_per_level |-> 2, active |-> FALSE, timer |-> 0, points |-> 100],
        level |-> 21 ],
    hist |-> [ caps |-> 0, since_loss |-> FALSE, awards |-> 1, spawns |-> <<  >> ] ]

\* Level 26, 3 s into play: the player is one step above the power pellet at (1, 27).
S_pp26 ==
  [ state |-> "play", paused |-> FALSE, ready_timer |-> -50, level |-> 26,
    glitch_override |-> FALSE, high_score |-> 10740, bonus_life_awarded |-> TRUE,
    player |-> [ x |-> 1 * U + HalfU, y |-> 10700000, score |-> 160, lives |-> 3, eat_ghost_combo |-> 0,
                 direction |-> DDown, next_direction |-> DDown ],
    ghosts |-> <<
         [ x |-> 13 * U + HalfU, y |-> 11 * U + HalfU, speed |-> 377600, mode |-> "scatter", frightened |-> FALSE,
           eaten |-> FALSE, home_time |-> 0, dir |-> DUp,
           elroy1_done |-> FALSE, elroy2_done |-> FALSE ],
         [ x |-> 4422400, y |-> 14 * U, speed |-> 377600, mode |-> "scatter", frightened |-> FALSE,
           eaten |-> FALSE, home_time |-> 0, dir |-> DLeft,
           elroy1_done |-> FALSE, elroy2_done |-> FALSE ],
         [ x |-> 13 * U + HalfU, y |-> 14 * U, speed |-> 377600, mode |-> "scatter", frightened |-> FALSE,
           eaten |-> FALSE, home_time |-> 950, dir |-> NoDir,
           elroy1_done |-> FALSE, elroy2_done |-> FALSE ],
         [ x |-> 15 * U, y |-> 14 * U, speed |-> 377600, mode |-> "scatter", frightened |-> FALSE,
           eaten |-> FALSE, home_time |-> 2950, dir |-> NoDir,
           elroy1_done |-> FALSE, elroy2_done |-> FALSE ] >>,
    level_data |->
      [ maze |-> Eaten(BaseMaze,
                  Seg(23, 13, 13) \cup Seg(24, 13, 13) \cup Seg(25, 13, 13) \cup Seg(26, 1, 13)),
        dots_eaten |-> 16, total_pellets |-> TotalPellets,
        frightened_timer |-> 0, mode_timeline |-> Timeline(26), mode_index |-> 0,
        current_mode |-> "scatter", mode_timer |-> 1950,
        fruit |-> [spawned |-> 0, spawns_per_level |-> 2, active |-> FALSE, timer |-> 0, points |-> 100],
        level |-> 26 ],
    hist |-> [ caps |-> 0, since_loss |-> FALSE, awards |-> 1, spawns |-> <<  >> ] ]

\* Level 1, 8.5 s into play: the power pellet at (1, 27) eaten, the player has
\* walked row 27 to column 14 and up to (14.5, 16.5), and a 500 ms frame has
\* carried it over the wall into the house, half a tile from Clyde, who waits.
S_c10 ==
  [ state |-> "play", paused |-> FALSE, ready_timer |-> -50, level |-> 1,
    glitch_override |-> FALSE, high_score |-> 450, bonus_life_awarded |-> FALSE,
    player |-> [ x |-> 14 * U + HalfU, y |-> 14 * U, score |-> 450, lives |-> 3, eat_ghost_combo |-> 0,
                 direction |-> DUp, next_direction |-> DUp ],
    ghosts |-> <<
         [ x |-> 13 * U + HalfU, y |-> 4010000, speed |-> 236000, mode |-> "chase", frightened |-> TRUE,
           eaten |-> FALSE, home_time |-> 0, dir |-> DUp,
           elroy1_done |-> FALSE, elroy2_done |-> FALSE ],
         [ x |-> 12 * U, y |-> 5010000, speed |-> 236000, mode |-> "chase", frightened |-> TRUE,
           eaten |-> FALSE, home_time |-> 0, dir |-> DUp,
           elroy1_done |-> FALSE, elroy2_done |-> FALSE ],
         [ x |-> 13 * U + HalfU, y |-> 5010000, speed |-> 236000, mode |-> "chase", frightened |-> TRUE,
           eaten |-> FALSE, home_time |-> 0, dir |-> DUp,
           elroy1_done |-> FALSE, elroy2_done |-> FALSE ],
         [ x |-> 15 * U, y |-> 14 * U, speed |-> 236000, mode |-> "scatter", frightened |-> FALSE,
           eaten |-> FALSE, home_time |-> 3500, dir |-> NoDir,
           elroy1_done |-> FALSE, elroy2_done |-> FALSE ] >>,
    level_data |->
      [ maze |-> Eaten(BaseMaze,
                  Seg(16, 14, 14) \cup Seg(17, 14, 14) \cup Seg(18, 14, 14) \cup Seg(19, 14, 14)
                \cup Seg(20, 14, 14) \cup Seg(21, 14, 14) \cup Seg(22, 14, 14) \cup Seg(23, 13, 14)
                \cup Seg(24, 13, 14) \cup Seg(25, 13, 14) \cup Seg(26, 1, 14) \cup Seg(27, 1, 14)),
        dots_eaten |-> 41, total_pellets |-> TotalPellets,
        frightened_timer |-> 550, mode_timeline |-> Timeline(1), mode_index |-> 1,
        current_mode |-> "chase", mode_timer |-> 18500,
        fruit |-> [spawned |-> 0, spawns_per_level |-> 2, active |-> FALSE, timer |-> 0, points |-> 100],
        level |-> 1 ],
    hist |-> [ caps |-> 0, since_loss |-> FALSE, awards |-> 0, spawns |-> <<  >> ] ]

\* Level 1, one life left: two lives lost to Clyde in the house, and the
\* player is back in the house half a tile from Clyde.
S_over ==
  [ state |-> "play", paused |-> FALSE, ready_timer |-> -50, level |-> 1,
    glitch_override |-> FALSE, high_score |-> 730, bonus_life_awarded |-> FALSE,
    player |-> [ x |-> 14 * U + HalfU, y |-> 14 * U, score |-> 730, lives |-> 1, eat_ghost_combo |-> 0,
                 direction |-> DDown, next_direction |-> DDown ],
    ghosts |-> <<
         [ x |-> 4456000, y |-> 14 * U, speed |-> 236000, mode |-> "chase", frightened |-> FALSE,
           eaten |-> FALSE, home_time |-> 0, dir |-> DLeft,
           elroy1_done |-> FALSE, elroy2_done |-> FALSE ],
         [ x |-> 4446000, y |-> 14 * U, speed |-> 236000, mode |-> "chase", frightened |-> FALSE,
           eaten |-> FALSE, home_time |-> 0, dir |-> DLeft,
           elroy1_done |-> FALSE, elroy2_done |-> FALSE ],
         [ x |-> 13 * U + HalfU, y |-> 14 * U, speed |-> 236000, mode |-> "chase", frightened |-> TRUE,
           eaten |-> FALSE, home_time |-> 2100, dir |-> NoDir,
           elroy1_done |-> FALSE, elroy2_done |-> FALSE ],
         [ x |-> 15 * U, y |-> 14 * U, speed |-> 236000, mode |-> "scatter", frightened |-> FALSE,
           eaten |-> FALSE, home_time |-> 6100, dir |-> NoDir,
           elroy1_done |-> FALSE, elroy2_done |-> FALSE ] >>,
    level_data |->
      [ maze |-> Eaten(BaseMaze,
                  Seg(12, 7, 14) \cup Seg(13, 7, 7) \cup Seg(14, 7, 7) \cup Seg(15, 5, 7)
                \cup Seg(16, 5, 5) \cup Seg(16, 14, 14) \cup Seg(17, 5, 5) \cup Seg(17, 14, 14)
                \cup Seg(18, 5, 5) \cup Seg(18, 14, 14) \cup Seg(19, 5, 5) \cup Seg(19, 14, 14)
                \cup Seg(20, 5, 11) \cup Seg(20, 14, 14) \cup Seg(21, 11, 11) \cup Seg(21, 14, 14)
                \cup Seg(22, 11, 11) \cup Seg(22, 14, 14) \cup Seg(23, 11, 14) \cup Seg(24, 13, 14)
                \cup Seg(25, 13, 14) \cup Seg(26, 1, 14) \cup Seg(27, 1, 14)),
        dots_eaten |-> 69, total_pellets |-> TotalPellets,
        frightened_timer |-> 0, mode_timeline |-> Timeline(1), mode_index |-> 1,
        current_mode |-> "chase", mode_timer |-> 6600,
        fruit |-> [spawned |-> 0, spawns_per_level |-> 2, active |-> FALSE, timer |-> 0, points |-> 100],
        level |-> 1 ],
    hist |-> [ caps |-> 0, since_loss |-> TRUE, awards |-> 0, spawns |-> <<  >> ] ]

\* Level 1, one life left, 69 pellets eaten: the player, back from the house,
\* is one step below the pellet at (8, 11).
S_fruit ==
  [ state |-> "play", paused |-> FALSE, ready_timer |-> -50, level |-> 1,
    glitch_override |-> FALSE, high_score |-> 730, bonus_life_awarded |-> FALSE,
    player |-> [ x |-> 8 * U + HalfU, y |-> 12 * U, score |-> 730, lives |-> 1, eat_ghost_combo |-> 0,
                 direction |-> DUp, next_direction |-> DUp ],
    ghosts |-> <<
         [ x |-> 4456000, y |-> 14 * U, speed |-> 236000, mode |-> "chase", frightened |-> FALSE,
           eaten |-> FALSE, home_time |-> 0, dir |-> DLeft,
           elroy1_done |-> FALSE, elroy2_done |-> FALSE ],
         [ x |-> 4446000, y |-> 14 * U, speed |-> 236000, mode |-> "chase", frightened |-> FALSE,
           eaten |-> FALSE, home_time |-> 0, dir |-> DLeft,
           elroy1_done |-> FALSE, elroy2_done |-> FALSE ],
         [ x |-> 13 * U + HalfU, y |-> 14 * U, speed |-> 236000, mode |-> "chase", frightened |-> TRUE,
           eaten |-> FALSE, home_time |-> 500, dir |-> NoDir,
           elroy1_done |-> FALSE, elroy2_done |-> FALSE ],
         [ x |-> 15 * U, y |-> 14 * U, speed |-> 236000, mode |-> "scatter", frightened |-> FALSE,
           eaten |-> FALSE, home_time |-> 4500, dir |-> NoDir,
           elroy1_done |-> FALSE, elroy2_done |-> FALSE ] >>,
    level_data |->
      [ maze |-> Eaten(BaseMaze,
                  Seg(12, 7, 14) \cup Seg(13, 7, 7) \cup Seg(14, 7, 7) \cup Seg(15, 5, 7)
                \cup Seg(16, 5, 5) \cup Seg(16, 14, 14) \cup Seg(17, 5, 5) \cup Seg(17, 14, 14)
                \cup Seg(18, 5, 5) \cup Seg(18, 14, 14) \cup Seg(19, 5, 5) \cup Seg(19, 14, 14)
                \cup Seg(20, 5, 11) \cup Seg(20, 14, 14) \cup Seg(21, 11, 11) \cup Seg(21, 14, 14)
                \cup Seg(22, 11, 11) \cup Seg(22, 14, 14) \cup Seg(23, 11, 14) \cup Seg(24, 13, 14)
                \cup Seg(25, 13, 14) \cup Seg(26, 1, 14) \cup Seg(27, 1, 14)),
        dots_eaten |-> 69, total_pellets |-> TotalPellets,
        frightened_timer |-> 0, mode_timeline |-> Timeline(1), mode_index |-> 1,
        current_mode |-> "chase", mode_timer |-> 5000,
        fruit |-> [spawned |-> 0, spawns_per_level |-> 2, active |-> FALSE, timer |-> 0, points |-> 100],
        level |-> 1 ],
    hist |-> [ caps |-> 0, since_loss |-> TRUE, awards |-> 0, spawns |-> <<  >> ] ]

\* Level 1, 84 s into play: the seventh timeline entry has 50 ms to run.
S_mode ==
  [ state |-> "play", paused |-> FALSE, ready_timer |-> -50, level |-> 1,
    glitch_override |-> FALSE, high_score |-> 3000, bonus_life_awarded |-> FALSE,
    player |-> [ x |-> 1700000, y |-> 20 * U + HalfU, score |-> 3000, lives |-> 1, eat_ghost_combo |-> 0,
                 direction |-> DRight, next_direction |-> DRight ],
    ghosts |-> <<
         [ x |-> 4456000, y |-> 14 * U, speed |-> 236000, mode |-> "scatter", frightened |-> FALSE,
           eaten |-> FALSE, home_time |-> 0, dir |-> DLeft,
           elroy1_done |-> FALSE, elroy2_done |-> FALSE ],
         [ x |-> 4446000, y |-> 14 * U, speed |-> 236000, mode |-> "scatter", frightened |-> FALSE,
           eaten |-> FALSE, home_time |-> 0, dir |-> DLeft,
           elroy1_done |-> FALSE, elroy2_done |-> FALSE ],
         [ x |-> 4456000, y |-> 14 * U, speed |-> 236000, mode |-> "scatter", frightened |-> FALSE,
           eaten |-> FALSE, home_time |-> 0, dir |-> DLeft,
           elroy1_done |-> FALSE, elroy2_done |-> FALSE ],
         [ x |-> 4466000, y |-> 14 * U, speed |-> 236000, mode |-> "scatter", frightened |-> FALSE,
           eaten |-> FALSE, home_time |-> 0, dir |-> DLeft,
           elroy1_done |-> FALSE, elroy2_done |-> FALSE ] >>,
    level_data |->
      [ maze |-> Eaten(BaseMaze,
                  Seg(1, 1, 13) \cup Seg(2, 1, 1) \cup Seg(2, 10, 13) \cup Seg(3, 10, 13)
                \cup Seg(3, 19, 20) \cup Seg(4, 1, 1) \cup Seg(4, 10, 13) \cup Seg(4, 19, 20)
                \cup Seg(5, 1, 5) \cup Seg(5, 10, 13) \cup Seg(5, 19, 20) \cup Seg(6, 1, 5)
                \cup Seg(6, 10, 11) \cup Seg(6, 13, 13) \cup Seg(7, 1, 5) \cup Seg(7, 10, 11)
                \cup Seg(7, 13, 13) \cup Seg(8, 1, 5) \cup Seg(8, 10, 11) \cup Seg(8, 13, 13)
                \cup Seg(9, 1, 5) \cup Seg(9, 13, 13) \cup Seg(10, 1, 13) \cup Seg(11, 1, 5)
                \cup Seg(11, 7, 8) \cup Seg(12, 1, 5) \cup Seg(12, 7, 14) \cup Seg(13, 1, 4)
                \cup Seg(13, 7, 9) \cup Seg(14, 1, 1) \cup Seg(14, 7, 8) \cup Seg(15, 1, 1)
                \cup Seg(15, 3, 9) \cup Seg(16, 1, 1) \cup Seg(16, 3, 5) \cup Seg(16, 13, 14)
                \cup Seg(17, 1, 1) \cup Seg(17, 3, 3) \cup Seg(17, 5, 5) \cup Seg(17, 13, 14)
                \cup Seg(17, 16, 17) \cup Seg(18, 1, 1) \cup Seg(18, 3, 3) \cup Seg(18, 5, 5)
                \cup Seg(18, 13, 14) \cup Seg(18, 16, 17) \cup Seg(19, 1, 1) \cup Seg(19, 3, 3)
                \cup Seg(19, 5, 5) \cup Seg(19, 13, 14) \cup Seg(19, 16, 17) \cup Seg(20, 1, 11)
                \cup Seg(20, 13, 14) \cup Seg(20, 16, 17) \cup Seg(21, 1, 1) \cup Seg(21, 7, 11)
                \cup Seg(21, 13, 14) \cup Seg(21, 16, 17) \cup Seg(22, 1, 5) \cup Seg(22, 7, 11)
                \cup Seg(22, 13, 14) \cup Seg(22, 16, 17) \cup Seg(23, 1, 1) \cup Seg(23, 10, 17)
                \cup Seg(24, 1, 10) \cup Seg(24, 13, 17) \cup Seg(25, 1, 10) \cup Seg(25, 13, 17)
                \cup Seg(26, 1, 17) \cup Seg(27, 1, 17) \cup Seg(28, 1, 17) \cup Seg(29, 1, 17)),
        dots_eaten |-> 296, total_pellets |-> TotalPellets,
        frightened_timer |-> 0, mode_timeline |-> Timeline(1), mode_index |-> 6,
        current_mode |-> "scatter", mode_timer |-> 50,
        fruit |-> [spawned |-> 2, spawns_per_level |-> 2, active |-> FALSE, timer |-> 0, points |-> 100],
        level |-> 1 ],
    hist |-> [ caps |-> 0, since_loss |-> TRUE, awards |-> 0, spawns |-> << 70, 70 >> ] ]

\* Level 1, 537 pellets eaten, 21 left: the player is one step below the pellet
\* at (11, 24).
S_elroy ==
  [ state |-> "play", paused |-> FALSE, ready_timer |-> -50, level |-> 1,
    glitch_override |-> FALSE, high_score |-> 5490, bonus_life_awarded |-> FALSE,
    player |-> [ x |-> 11 * U + HalfU, y |-> 25 * U, score |-> 5490, lives |-> 1, eat_ghost_combo |-> 0,
                 direction |-> DUp, next_direction |-> DUp ],
    ghosts |-> <<
         [ x |-> 4456000, y |-> 14 * U, speed |-> 236000, mode |-> "chase", frightened |-> FALSE,
           eaten |-> FALSE, home_time |-> 0, dir |-> DLeft,
           elroy1_done |-> FALSE, elroy2_done |-> FALSE ],
         [ x |-> 4446000, y |-> 14 * U, speed |-> 236000, mode |-> "chase", frightened |-> FALSE,
           eaten |-> FALSE, home_time |-> 0, dir |-> DLeft,
           elroy1_done |-> FALSE, elroy2_done |-> FALSE ],
         [ x |-> 4456000, y |-> 14 * U, speed |-> 236000, mode |-> "chase", frightened |-> FALSE,
           eaten |-> FALSE, home_time |-> 0, dir |-> DLeft,
           elroy1_done |-> FALSE, elroy2_done |-> FALSE ],
         [ x |-> 4407000, y |-> 14 * U, speed |-> 236000, mode |-> "chase", frightened |-> FALSE,
           eaten |-> FALSE, home_time |-> 0, dir |-> DLeft,
           elroy1_done |-> FALSE, elroy2_done |-> FALSE ] >>,
    level_data |->
      [ maze |-> Eaten(BaseMaze,
                  Seg(1, 1, 26) \cup Seg(2, 1, 1) \cup Seg(2, 10, 17) \cup Seg(2, 26, 26)
                \cup Seg(3, 7, 8) \cup Seg(3, 10, 17) \cup Seg(3, 19, 20) \cup Seg(3, 26, 26)
                \cup Seg(4, 1, 1) \cup Seg(4, 7, 8) \cup Seg(4, 10, 17) \cup Seg(4, 19, 20)
                \cup Seg(4, 26, 26) \cup Seg(5, 1, 5) \cup Seg(5, 7, 8) \cup Seg(5, 10, 17)
                \cup Seg(5, 19, 20) \cup Seg(5, 22, 26) \cup Seg(6, 1, 5) \cup Seg(6, 10, 11)
                \cup Seg(6, 13, 14) \cup Seg(6, 16, 17) \cup Seg(6, 22, 26) \cup Seg(7, 1, 8)
                \cup Seg(7, 10, 11) \cup Seg(7, 13, 14) \cup Seg(7, 16, 17) \cup Seg(7, 19, 26)
                \cup Seg(8, 1, 8) \cup Seg(8, 10, 11) \cup Seg(8, 13, 14) \cup Seg(8, 16, 17)
                \cup Seg(8, 19, 26) \cup Seg(9, 1, 5) \cup Seg(9, 13, 14) \cup Seg(9, 22, 26)
                \cup Seg(10, 1, 26) \cup Seg(11, 1, 5) \cup Seg(11, 7, 8) \cup Seg(11, 19, 20)
                \cup Seg(11, 22, 26) \cup Seg(12, 1, 5) \cup Seg(12, 7, 20) \cup Seg(12, 22, 26)
                \cup Seg(13, 1, 5) \cup Seg(13, 7, 9) \cup Seg(13, 18, 20) \cup Seg(13, 22, 26)
                \cup Seg(14, 1, 1) \cup Seg(14, 7, 8) \cup Seg(14, 18, 20) \cup Seg(14, 26, 26)
                \cup Seg(15, 1, 1) \cup Seg(15, 3, 9) \cup Seg(15, 18, 24) \cup Seg(15, 26, 26)
                \cup Seg(16, 1, 1) \cup Seg(16, 3, 5) \cup Seg(16, 13, 14) \cup Seg(16, 22, 24)
                \cup Seg(16, 26, 26) \cup Seg(17, 1, 1) \cup Seg(17, 3, 8) \cup Seg(17, 13, 14)
                \cup Seg(17, 16, 17) \cup Seg(17, 22, 24) \cup Seg(17, 26, 26) \cup Seg(18, 1, 1)
                \cup Seg(18, 3, 8) \cup Seg(18, 13, 14) \cup Seg(18, 16, 17) \cup Seg(18, 22, 24)
                \cup Seg(18, 26, 26) \cup Seg(19, 1, 1) \cup Seg(19, 3, 5) \cup Seg(19, 13, 14)
                \cup Seg(19, 16, 17) \cup Seg(19, 22, 24) \cup Seg(19, 26, 26) \cup Seg(20, 1, 11)
                \cup Seg(20, 13, 14) \cup Seg(20, 16, 26) \cup Seg(21, 1, 1) \cup Seg(21, 7, 11)
                \cup Seg(21, 13, 14) \cup Seg(21, 16, 20) \cup Seg(21, 26, 26) \cup Seg(22, 1, 5)
                \cup Seg(22, 7, 11) \cup Seg(22, 13, 14) \cup Seg(22, 16, 20) \cup Seg(22, 22, 26)
                \cup Seg(23, 1, 1) \cup Seg(23, 10, 17) \cup Seg(23, 26, 26) \cup Seg(24, 1, 10)
                \cup Seg(24, 12, 26) \cup Seg(25, 1, 26) \cup Seg(26, 1, 26) \cup Seg(27, 1, 26)
                \cup Seg(28, 1, 26) \cup Seg(29, 1, 26)),
        dots_eaten |-> 537, total_pellets |-> TotalPellets,
        frightened_timer |-> 0, mode_timeline |-> Timeline(1), mode_index |-> 1189,
        current_mode |-> "chase", mode_timer |-> -81100,
        fruit |-> [spawned |-> 2, spawns_per_level |-> 2, active |-> FALSE, timer |-> 0, points |-> 100],
        level |-> 1 ],
    hist |-> [ caps |-> 0, since_loss |-> FALSE, awards |-> 0, spawns |-> << 70, 70 >> ] ]

\* Level 1, the last power pellet, at (1, 3), eaten 5.3 s ago: the player is in
\* the house, a tile from the four pursuers, who stand at its left wall.
S_cap ==
  [ state |-> "play", paused |-> FALSE, ready_timer |-> -50, level |-> 1,
    glitch_override |-> FALSE, high_score |-> 5730, bonus_life_awarded |-> FALSE,
    player |-> [ x |-> 12 * U, y |-> 14 * U, score |-> 5730, lives |-> 1, eat_ghost_combo |-> 0,
                 direction |-> DLeft, next_direction |-> DLeft ],
    ghosts |-> <<
         [ x |-> 4456000, y |-> 14 * U, speed |-> 260190, mode |-> "chase", frightened |-> TRUE,
           eaten |-> FALSE, home_time |-> 0, dir |-> DLeft,
           elroy1_done |-> TRUE, elroy2_done |-> TRUE ],
         [ x |-> 4446000, y |-> 14 * U, speed |-> 236000, mode |-> "chase", frightened |-> TRUE,
           eaten |-> FALSE, home_time |-> 0, dir |-> DLeft,
           elroy1_done |-> FALSE, elroy2_done |-> FALSE ],
         [ x |-> 4456000, y |-> 14 * U, speed |-> 236000, mode |-> "chase", frightened |-> TRUE,
           eaten |-> FALSE, home_time |-> 0, dir |-> DLeft,
           elroy1_done |-> FALSE, elroy2_done |-> FALSE ],
         [ x |-> 4407000, y |-> 14 * U, speed |-> 236000, mode |-> "chase", frightened |-> TRUE,
           eaten |-> FALSE, home_time |-> 0, dir |-> DLeft,
           elroy1_done |-> FALSE, elroy2_done |-> FALSE ] >>,
    level_data |->
      [ maze |-> Eaten(BaseMaze,
                  Seg(1, 1, 26) \cup Seg(2, 1, 1) \cup Seg(2, 10, 17) \cup Seg(2, 26, 26)
                \cup Seg(3, 1, 1) \cup Seg(3, 3, 5) \cup Seg(3, 7, 8) \cup Seg(3, 10, 17)
                \cup Seg(3, 19, 20) \cup Seg(3, 22, 24) \cup Seg(3, 26, 26) \cup Seg(4, 1, 1)
                \cup Seg(4, 7, 8) \cup Seg(4, 10, 17) \cup Seg(4, 19, 20) \cup Seg(4, 26, 26)
                \cup Seg(5, 1, 5) \cup Seg(5, 7, 8) \cup Seg(5, 10, 17) \cup Seg(5, 19, 20)
                \cup Seg(5, 22, 26) \cup Seg(6, 1, 5) \cup Seg(6, 10, 11) \cup Seg(6, 13, 14)
                \cup Seg(6, 16, 17) \cup Seg(6, 22, 26) \cup Seg(7, 1, 8) \cup Seg(7, 10, 11)
                \cup Seg(7, 13, 14) \cup Seg(7, 16, 17) \cup Seg(7, 19, 26) \cup Seg(8, 1, 8)
                \cup Seg(8, 10, 11) \cup Seg(8, 13, 14) \cup Seg(8, 16, 17) \cup Seg(8, 19, 26)
                \cup Seg(9, 1, 5) \cup Seg(9, 13, 14) \cup Seg(9, 22, 26) \cup Seg(10, 1, 26)
                \cup Seg(11, 1, 5) \cup Seg(11, 7, 8) \cup Seg(11, 19, 20) \cup Seg(11, 22, 26)
                \cup Seg(12, 1, 5) \cup Seg(12, 7, 20) \cup Seg(12, 22, 26) \cup Seg(13, 1, 5)
                \cup Seg(13, 7, 9) \cup Seg(13, 18, 20) \cup Seg(13, 22, 26) \cup Seg(14, 1, 1)
                \cup Seg(14, 7, 8) \cup Seg(14, 18, 20) \cup Seg(14, 26, 26) \cup Seg(15, 1, 1)
                \cup Seg(15, 3, 9) \cup Seg(15, 18, 24) \cup Seg(15, 26, 26) \cup Seg(16, 1, 1)
                \cup Seg(16, 3, 5) \cup Seg(16, 13, 14) \cup Seg(16, 22, 24) \cup Seg(16, 26, 26)
                \cup Seg(17, 1, 1) \cup Seg(17, 3, 8) \cup Seg(17, 10, 11) \cup Seg(17, 13, 14)
                \cup Seg(17, 16, 17) \cup Seg(17, 19, 24) \cup Seg(17, 26, 26) \cup Seg(18, 1, 1)
                \cup Seg(18, 3, 8) \cup Seg(18, 10, 11) \cup Seg(18, 13, 14) \cup Seg(18, 16, 17)
                \cup Seg(18, 19, 24) \cup Seg(18, 26, 26) \cup Seg(19, 1, 1) \cup Seg(19, 3, 5)
                \cup Seg(19, 10, 11) \cup Seg(19, 13, 14) \cup Seg(19, 16, 17) \cup Seg(19, 22, 24)
                \cup Seg(19, 26, 26) \cup Seg(20, 1, 11) \cup Seg(20, 13, 14) \cup Seg(20, 16, 26)
                \cup Seg(21, 1, 1) \cup Seg(21, 7, 11) \cup Seg(21, 13, 14) \cup Seg(21, 16, 20)
                \cup Seg(21, 26, 26) \cup Seg(22, 1, 5) \cup Seg(22, 7, 11) \cup Seg(22, 13, 14)
                \cup Seg(22, 16, 20) \cup Seg(22, 22, 26) \cup Seg(23, 1, 1) \cup Seg(23, 10, 17)
                \cup Seg(23, 26, 26) \cup Seg(24, 1, 26) \cup Seg(25, 1, 26) \cup Seg(26, 1, 26)
                \cup Seg(27, 1, 26) \cup Seg(28, 1, 26) \cup Seg(29, 1, 26)),
        dots_eaten |-> 557, total_pellets |-> TotalPellets,
        frightened_timer |-> 700, mode_timeline |-> Timeline(1), mode_index |-> 1494,
        current_mode |-> "chase", mode_timer |-> -108600,
        fruit |-> [spawned |-> 2, spawns_per_level |-> 2, active |-> FALSE, timer |-> 0, points |-> 100],
        level |-> 1 ],
    hist |-> [ caps |-> 0, since_loss |-> FALSE, awards |-> 0, spawns |-> << 70, 70 >> ] ]

\* The first game up to S_cap, continued otherwise: Pinky and Inky, frightened,
\* turn right (random.random() < 0.05, random.choice gives (1, 0)) in the 50 ms
\* frame that captures them, and the player follows them for five frames.
\* Level 1, 0.4 s of the countdown left: Pinky and Inky, eaten and heading
\* right, are 0.7625 and 0.7375 tiles left of the home tile (13.5, 14.0).
S_home ==
  [ state |-> "play", paused |-> FALSE, ready_timer |-> -50, level |-> 1,
    glitch_override |-> FALSE, high_score |-> 6330, bonus_life_awarded |-> FALSE,
    player |-> [ x |-> 13 * U, y |-> 14 * U, score |-> 6330, lives |-> 1, eat_ghost_combo |-> 2,
                 direction |-> DRight, next_direction |-> DRight ],
    ghosts |-> <<
         [ x |-> 4456000, y |-> 14 * U, speed |-> 260190, mode |-> "chase", frightened |-> TRUE,
           eaten |-> FALSE, home_time |-> 0, dir |-> DLeft,
           elroy1_done |-> TRUE, elroy2_done |-> TRUE ],
         [ x |-> 5095000, y |-> 14 * U, speed |-> 236000, mode |-> "chase", frightened |-> TRUE,
           eaten |-> TRUE, home_time |-> 0, dir |-> DRight,
           elroy1_done |-> FALSE, elroy2_done |-> FALSE ],
         [ x |-> 5105000, y |-> 14 * U, speed |-> 236000, mode |-> "chase", frightened |-> TRUE,
           eaten |-> TRUE, home_time |-> 0, dir |-> DRight,
           elroy1_done |-> FALSE, elroy2_done |-> FALSE ],
         [ x |-> 4761000, y |-> 14 * U, speed |-> 236000, mode |-> "chase", frightened |-> TRUE,
           eaten |-> FALSE, home_time |-> 0, dir |-> DRight,
           elroy1_done |-> FALSE, elroy2_done |-> FALSE ] >>,
    level_data |->
      [ maze |-> Eaten(BaseMaze,
                  Seg(1, 1, 26) \cup Seg(2, 1, 1) \cup Seg(2, 10, 17) \cup Seg(2, 26, 26)
                \cup Seg(3, 1, 1) \cup Seg(3, 3, 5) \cup Seg(3, 7, 8) \cup Seg(3, 10, 17)
                \cup Seg(3, 19, 20) \cup Seg(3, 22, 24) \cup Seg(3, 26, 26) \cup Seg(4, 1, 1)
                \cup Seg(4, 7, 8) \cup Seg(4, 10, 17) \cup Seg(4, 19, 20) \cup Seg(4, 26, 26)
                \cup Seg(5, 1, 5) \cup Seg(5, 7, 8) \cup Seg(5, 10, 17) \cup Seg(5, 19, 20)
                \cup Seg(5, 22, 26) \cup Seg(6, 1, 5) \cup Seg(6, 10, 11) \cup Seg(6, 13, 14)
                \cup Seg(6, 16, 17) \cup Seg(6, 22, 26) \cup Seg(7, 1, 8) \cup Seg(7, 10, 11)
                \cup Seg(7, 13, 14) \cup Seg(7, 16, 17) \cup Seg(7, 19, 26) \cup Seg(8, 1, 8)
                \cup Seg(8, 10, 11) \cup Seg(8, 13, 14) \cup Seg(8, 16, 17) \cup Seg(8, 19, 26)
                \cup Seg(9, 1, 5) \cup Seg(9, 13, 14) \cup Seg(9, 22, 26) \cup Seg(10, 1, 26)
                \cup Seg(11, 1, 5) \cup Seg(11, 7, 8) \cup Seg(11, 19, 20) \cup Seg(11, 22, 26)
                \cup Seg(12, 1, 5) \cup Seg(12, 7, 20) \cup Seg(12, 22, 26) \cup Seg(13, 1, 5)
                \cup Seg(13, 7, 9) \cup Seg(13, 18, 20) \cup Seg(13, 22, 26) \cup Seg(14, 1, 1)
                \cup Seg(14, 7, 8) \cup Seg(14, 18, 20) \cup Seg(14, 26, 26) \cup Seg(15, 1, 1)
                \cup Seg(15, 3, 9) \cup Seg(15, 18, 24) \cup Seg(15, 26, 26) \cup Seg(16, 1, 1)
                \cup Seg(16, 3, 5) \cup Seg(16, 13, 14) \cup Seg(16, 22, 24) \cup Seg(16, 26, 26)
                \cup Seg(17, 1, 1) \cup Seg(17, 3, 8) \cup Seg(17, 10, 11) \cup Seg(17, 13, 14)
                \cup Seg(17, 16, 17) \cup Seg(17, 19, 24) \cup Seg(17, 26, 26) \cup Seg(18, 1, 1)
                \cup Seg(18, 3, 8) \cup Seg(18, 10, 11) \cup Seg(18, 13, 14) \cup Seg(18, 16, 17)
                \cup Seg(18, 19, 24) \cup Seg(18, 26, 26) \cup Seg(19, 1, 1) \cup Seg(19, 3, 5)
                \cup Seg(19, 10, 11) \cup Seg(19, 13, 14) \cup Seg(19, 16, 17) \cup Seg(19, 22, 24)
                \cup Seg(19, 26, 26) \cup Seg(20, 1, 11) \cup Seg(20, 13, 14) \cup Seg(20, 16, 26)
                \cup Seg(21, 1, 1) \cup Seg(21, 7, 11) \cup Seg(21, 13, 14) \cup Seg(21, 16, 20)
                \cup Seg(21, 26, 26) \cup Seg(22, 1, 5) \cup Seg(22, 7, 11) \cup Seg(22, 13, 14)
                \cup Seg(22, 16, 20) \cup Seg(22, 22, 26) \cup Seg(23, 1, 1) \cup Seg(23, 10, 17)
                \cup Seg(23, 26, 26) \cup Seg(24, 1, 26) \cup Seg(25, 1, 26) \cup Seg(26, 1, 26)
                \cup Seg(27, 1, 26) \cup Seg(28, 1, 26) \cup Seg(29, 1, 26)),
        dots_eaten |-> 557, total_pellets |-> TotalPellets,
        frightened_timer |-> 400, mode_timeline |-> Timeline(1), mode_index |-> 1500,
        current_mode |-> "chase", mode_timer |-> -108900,
        fruit |-> [spawned |-> 2, spawns_per_level |-> 2, active |-> FALSE, timer |-> 0, points |-> 100],
        level |-> 1 ],
    hist |-> [ caps |-> 2, since_loss |-> FALSE, awards |-> 0, spawns |-> << 70, 70 >> ] ]

\* A second game, played like the first but for one life lost in the house
\* instead of two. Level 1, two lives, one pellet left, no countdown: the player,
\* in the house, is one step from Blinky, who stands at the left wall.
S_hit ==
  [ state |-> "play", paused |-> FALSE, ready_timer |-> -50, level |-> 1,
    glitch_override |-> FALSE, high_score |-> 5730, bonus_life_awarded |-> FALSE,
    player |-> [ x |-> 4700000, y |-> 14 * U, score |-> 5730, lives |-> 2, eat_ghost_combo |-> 0,
                 direction |-> DLeft, next_direction |-> DLeft ],
    ghosts |-> <<
         [ x |-> 4456000, y |-> 14 * U, speed |-> 260190, mode |-> "chase", frightened |-> FALSE,
           eaten |-> FALSE, home_time |-> 0, dir |-> DLeft,
           elroy1_done |-> TRUE, elroy2_done |-> TRUE ],
         [ x |-> 4446000, y |-> 14 * U, speed |-> 236000, mode |-> "chase", frightened |-> FALSE,
           eaten |-> FALSE, home_time |-> 0, dir |-> DLeft,
           elroy1_done |-> FALSE, elroy2_done |-> FALSE ],
         [ x |-> 4456000, y |-> 14 * U, speed |-> 236000, mode |-> "chase", frightened |-> FALSE,
           eaten |-> FALSE, home_time |-> 0, dir |-> DLeft,
           elroy1_done |-> FALSE, elroy2_done |-> FALSE ],
         [ x |-> 4407000, y |-> 14 * U, speed |-> 236000, mode |-> "chase", frightened |-> FALSE,
           eaten |-> FALSE, home_time |-> 0, dir |-> DLeft,
           elroy1_done |-> FALSE, elroy2_done |-> FALSE ] >>,
    level_data |->
      [ maze |-> Eaten(BaseMaze,
                  Seg(1, 1, 26) \cup Seg(2, 1, 1) \cup Seg(2, 10, 17) \cup Seg(2, 26, 26)
                \cup Seg(3, 1, 1) \cup Seg(3, 3, 5) \cup Seg(3, 7, 8) \cup Seg(3, 10, 17)
                \cup Seg(3, 19, 20) \cup Seg(3, 22, 24) \cup Seg(3, 26, 26) \cup Seg(4, 1, 1)
                \cup Seg(4, 7, 8) \cup Seg(4, 10, 17) \cup Seg(4, 19, 20) \cup Seg(4, 26, 26)
                \cup Seg(5, 1, 5) \cup Seg(5, 7, 8) \cup Seg(5, 10, 17) \cup Seg(5, 19, 20)
                \cup Seg(5, 22, 26) \cup Seg(6, 1, 5) \cup Seg(6, 10, 11) \cup Seg(6, 13, 14)
                \cup Seg(6, 16, 17) \cup Seg(6, 22, 26) \cup Seg(7, 1, 8) \cup Seg(7, 10, 11)
                \cup Seg(7, 13, 14) \cup Seg(7, 16, 17) \cup Seg(7, 19, 26) \cup Seg(8, 1, 8)
                \cup Seg(8, 10, 11) \cup Seg(8, 13, 14) \cup Seg(8, 16, 17) \cup Seg(8, 19, 26)
                \cup Seg(9, 1, 5) \cup Seg(9, 13, 14) \cup Seg(9, 22, 26) \cup Seg(10, 1, 26)
                \cup Seg(11, 1, 5) \cup Seg(11, 7, 8) \cup Seg(11, 19, 20) \cup Seg(11, 22, 26)
                \cup Seg(12, 1, 5) \cup Seg(12, 7, 20) \cup Seg(12, 22, 26) \cup Seg(13, 1, 5)
                \cup Seg(13, 7, 9) \cup Seg(13, 18, 20) \cup Seg(13, 22, 26) \cup Seg(14, 1, 1)
                \cup Seg(14, 7, 8) \cup Seg(14, 18, 20) \cup Seg(14, 26, 26) \cup Seg(15, 1, 1)
                \cup Seg(15, 3, 9) \cup Seg(15, 18, 24) \cup Seg(15, 26, 26) \cup Seg(16, 1, 1)
                \cup Seg(16, 3, 5) \cup Seg(16, 13, 14) \cup Seg(16, 22, 24) \cup Seg(16, 26, 26)
                \cup Seg(17, 1, 1) \cup Seg(17, 3, 8) \cup Seg(17, 10, 11) \cup Seg(17, 13, 14)
                \cup Seg(17, 16, 17) \cup Seg(17, 19, 24) \cup Seg(17, 26, 26) \cup Seg(18, 1, 1)
                \cup Seg(18, 3, 8) \cup Seg(18, 10, 11) \cup Seg(18, 13, 14) \cup Seg(18, 16, 17)
                \cup Seg(18, 19, 24) \cup Seg(18, 26, 26) \cup Seg(19, 1, 1) \cup Seg(19, 3, 5)
                \cup Seg(19, 10, 11) \cup Seg(19, 13, 14) \cup Seg(19, 16, 17) \cup Seg(19, 22, 24)
                \cup Seg(19, 26, 26) \cup Seg(20, 1, 11) \cup Seg(20, 13, 14) \cup Seg(20, 16, 26)
                \cup Seg(21, 1, 1) \cup Seg(21, 7, 11) \cup Seg(21, 13, 14) \cup Seg(21, 16, 20)
                \cup Seg(21, 26, 26) \cup Seg(22, 1, 5) \cup Seg(22, 7, 11) \cup Seg(22, 13, 14)
                \cup Seg(22, 16, 20) \cup Seg(22, 22, 26) \cup Seg(23, 1, 1) \cup Seg(23, 10, 17)
                \cup Seg(23, 26, 26) \cup Seg(24, 1, 26) \cup Seg(25, 1, 26) \cup Seg(26, 1, 26)
                \cup Seg(27, 1, 26) \cup Seg(28, 1, 26) \cup Seg(29, 1, 26)),
        dots_eaten |-> 557, total_pellets |-> TotalPellets,
        frightened_timer |-> 0, mode_timeline |-> Timeline(1), mode_index |-> 1464,
        current_mode |-> "chase", mode_timer |-> -103600,
        fruit |-> [spawned |-> 2, spawns_per_level |-> 2, active |-> FALSE, timer |-> 0, points |-> 100],
        level |-> 1 ],
    hist |-> [ caps |-> 0, since_loss |-> FALSE, awards |-> 0, spawns |-> << 70, 70 >> ] ]

\* Level 1, one life left, one pellet left, at (9, 14): the player is a tile
\* above it, having captured Blinky and Inky; Pinky and Clyde stand in the house.
S_last ==
  [ state |-> "play", paused |-> FALSE, ready_timer |-> -50, level |-> 1,
    glitch_override |-> FALSE, high_score |-> 6330, bonus_life_awarded |-> FALSE,
    player |-> [ x |-> 9 * U + HalfU, y |-> 13 * U, score |-> 6330, lives |-> 1, eat_ghost_combo |-> 2,
                 direction |-> DDown, next_direction |-> DDown ],
    ghosts |-> <<
         [ x |-> 4456000, y |-> 14 * U, speed |-> 260190, mode |-> "chase", frightened |-> FALSE,
           eaten |-> TRUE, home_time |-> 0, dir |-> DLeft,
           elroy1_done |-> TRUE, elroy2_done |-> TRUE ],
         [ x |-> 4446000, y |-> 14 * U, speed |-> 236000, mode |-> "chase", frightened |-> FALSE,
           eaten |-> FALSE, home_time |-> 0, dir |-> DLeft,
           elroy1_done |-> FALSE, elroy2_done |-> FALSE ],
         [ x |-> 4456000, y |-> 14 * U, speed |-> 236000, mode |-> "chase", frightened |-> FALSE,
           eaten |-> TRUE, home_time |-> 0, dir |-> DLeft,
           elroy1_done |-> FALSE, elroy2_done |-> FALSE ],
         [ x |-> 4407000, y |-> 14 * U, speed |-> 236000, mode |-> "chase", frightened |-> FALSE,
           eaten |-> FALSE, home_time |-> 0, dir |-> DLeft,
           elroy1_done |-> FALSE, elroy2_done |-> FALSE ] >>,
    level_data |->
      [ maze |-> Eaten(BaseMaze,
                  Seg(1, 1, 26) \cup Seg(2, 1, 1) \cup Seg(2, 10, 17) \cup Seg(2, 26, 26)
                \cup Seg(3, 1, 1) \cup Seg(3, 3, 5) \cup Seg(3, 7, 8) \cup Seg(3, 10, 17)
                \cup Seg(3, 19, 20) \cup Seg(3, 22, 24) \cup Seg(3, 26, 26) \cup Seg(4, 1, 1)
                \cup Seg(4, 7, 8) \cup Seg(4, 10, 17) \cup Seg(4, 19, 20) \cup Seg(4, 26, 26)
                \cup Seg(5, 1, 5) \cup Seg(5, 7, 8) \cup Seg(5, 10, 17) \cup Seg(5, 19, 20)
                \cup Seg(5, 22, 26) \cup Seg(6, 1, 5) \cup Seg(6, 10, 11) \cup Seg(6, 13, 14)
                \cup Seg(6, 16, 17) \cup Seg(6, 22, 26) \cup Seg(7, 1, 8) \cup Seg(7, 10, 11)
                \cup Seg(7, 13, 14) \cup Seg(7, 16, 17) \cup Seg(7, 19, 26) \cup Seg(8, 1, 8)
                \cup Seg(8, 10, 11) \cup Seg(8, 13, 14) \cup Seg(8, 16, 17) \cup Seg(8, 19, 26)
                \cup Seg(9, 1, 5) \cup Seg(9, 13, 14) \cup Seg(9, 22, 26) \cup Seg(10, 1, 26)
                \cup Seg(11, 1, 5) \cup Seg(11, 7, 8) \cup Seg(11, 19, 20) \cup Seg(11, 22, 26)
                \cup Seg(12, 1, 5) \cup Seg(12, 7, 20) \cup Seg(12, 22, 26) \cup Seg(13, 1, 5)
                \cup Seg(13, 7, 9) \cup Seg(13, 18, 20) \cup Seg(13, 22, 26) \cup Seg(14, 1, 1)
                \cup Seg(14, 7, 8) \cup Seg(14, 18, 20) \cup Seg(14, 26, 26) \cup Seg(15, 1, 1)
                \cup Seg(15, 3, 9) \cup Seg(15, 18, 24) \cup Seg(15, 26, 26) \cup Seg(16, 1, 1)
                \cup Seg(16, 3, 5) \cup Seg(16, 13, 14) \cup Seg(16, 22, 24) \cup Seg(16, 26, 26)
                \cup Seg(17, 1, 1) \cup Seg(17, 3, 8) \cup Seg(17, 10, 11) \cup Seg(17, 13, 14)
                \cup Seg(17, 16, 17) \cup Seg(17, 19, 24) \cup Seg(17, 26, 26) \cup Seg(18, 1, 1)
                \cup Seg(18, 3, 8) \cup Seg(18, 10, 11) \cup Seg(18, 13, 14) \cup Seg(18, 16, 17)
                \cup Seg(18, 19, 24) \cup Seg(18, 26, 26) \cup Seg(19, 1, 1) \cup Seg(19, 3, 5)
                \cup Seg(19, 10, 11) \cup Seg(19, 13, 14) \cup Seg(19, 16, 17) \cup Seg(19, 22, 24)
                \cup Seg(19, 26, 26) \cup Seg(20, 1, 11) \cup Seg(20, 13, 14) \cup Seg(20, 16, 26)
                \cup Seg(21, 1, 1) \cup Seg(21, 7, 11) \cup Seg(21, 13, 14) \cup Seg(21, 16, 20)
                \cup Seg(21, 26, 26) \cup Seg(22, 1, 5) \cup Seg(22, 7, 11) \cup Seg(22, 13, 14)
                \cup Seg(22, 16, 20) \cup Seg(22, 22, 26) \cup Seg(23, 1, 1) \cup Seg(23, 10, 17)
                \cup Seg(23, 26, 26) \cup Seg(24, 1, 26) \cup Seg(25, 1, 26) \cup Seg(26, 1, 26)
                \cup Seg(27, 1, 26) \cup Seg(28, 1, 26) \cup Seg(29, 1, 26)),
        dots_eaten |-> 557, total_pellets |-> TotalPellets,
        frightened_timer |-> 0, mode_timeline |-> Timeline(1), mode_index |-> 1534,
        current_mode |-> "chase", mode_timer |-> -110652,
        fruit |-> [spawned |-> 2, spawns_per_level |-> 2, active |-> FALSE, timer |-> 0, points |-> 100],
        level |-> 1 ],
    hist |-> [ caps |-> 2, since_loss |-> FALSE, awards |-> 0, spawns |-> << 70, 70 >> ] ]

\* The first game up to S_last, continued otherwise: the player turns back up
\* and the wall above (10.0, 12.0) stops it. Level 1, no countdown: Blinky and
\* Inky, eaten, and Pinky and Clyde stand at the left wall of the house, all
\* four heading left.
S_stuck ==
  [ state |-> "play", paused |-> FALSE, ready_timer |-> -50, level |-> 1,
    glitch_override |-> FALSE, high_score |-> 6330, bonus_life_awarded |-> FALSE,
    player |-> [ x |-> 10 * U, y |-> 12 * U, score |-> 6330, lives |-> 1, eat_ghost_combo |-> 2,
                 direction |-> DUp, next_direction |-> DUp ],
    ghosts |-> <<
         [ x |-> 4456000, y |-> 14 * U, speed |-> 260190, mode |-> "chase", frightened |-> FALSE,
           eaten |-> TRUE, home_time |-> 0, dir |-> DLeft,
           elroy1_done |-> TRUE, elroy2_done |-> TRUE ],
         [ x |-> 4446000, y |-> 14 * U, speed |-> 236000, mode |-> "chase", frightened |-> FALSE,
           eaten |-> FALSE, home_time |-> 0, dir |-> DLeft,
           elroy1_done |-> FALSE, elroy2_done |-> FALSE ],
         [ x |-> 4456000, y |-> 14 * U, speed |-> 236000, mode |-> "chase", frightened |-> FALSE,
           eaten |-> TRUE, home_time |-> 0, dir |-> DLeft,
           elroy1_done |-> FALSE, elroy2_done |-> FALSE ],
         [ x |-> 4407000, y |-> 14 * U, speed |-> 236000, mode |-> "chase", frightened |-> FALSE,
           eaten |-> FALSE, home_time |-> 0, dir |-> DLeft,
           elroy1_done |-> FALSE, elroy2_done |-> FALSE ] >>,
    level_data |->
      [ maze |-> Eaten(BaseMaze,
                  Seg(1, 1, 26) \cup Seg(2, 1, 1) \cup Seg(2, 10, 17) \cup Seg(2, 26, 26)
                \cup Seg(3, 1, 1) \cup Seg(3, 3, 5) \cup Seg(3, 7, 8) \cup Seg(3, 10, 17)
                \cup Seg(3, 19, 20) \cup Seg(3, 22, 24) \cup Seg(3, 26, 26) \cup Seg(4, 1, 1)
                \cup Seg(4, 7, 8) \cup Seg(4, 10, 17) \cup Seg(4, 19, 20) \cup Seg(4, 26, 26)
                \cup Seg(5, 1, 5) \cup Seg(5, 7, 8) \cup Seg(5, 10, 17) \cup Seg(5, 19, 20)
                \cup Seg(5, 22, 26) \cup Seg(6, 1, 5) \cup Seg(6, 10, 11) \cup Seg(6, 13, 14)
                \cup Seg(6, 16, 17) \cup Seg(6, 22, 26) \cup Seg(7, 1, 8) \cup Seg(7, 10, 11)
                \cup Seg(7, 13, 14) \cup Seg(7, 16, 17) \cup Seg(7, 19, 26) \cup Seg(8, 1, 8)
                \cup Seg(8, 10, 11) \cup Seg(8, 13, 14) \cup Seg(8, 16, 17) \cup Seg(8, 19, 26)
                \cup Seg(9, 1, 5) \cup Seg(9, 13, 14) \cup Seg(9, 22, 26) \cup Seg(10, 1, 26)
                \cup Seg(11, 1, 5) \cup Seg(11, 7, 8) \cup Seg(11, 19, 20) \cup Seg(11, 22, 26)
                \cup Seg(12, 1, 5) \cup Seg(12, 7, 20) \cup Seg(12, 22, 26) \cup Seg(13, 1, 5)
                \cup Seg(13, 7, 9) \cup Seg(13, 18, 20) \cup Seg(13, 22, 26) \cup Seg(14, 1, 1)
                \cup Seg(14, 7, 8) \cup Seg(14, 18, 20) \cup Seg(14, 26, 26) \cup Seg(15, 1, 1)
                \cup Seg(15, 3, 9) \cup Seg(15, 18, 24) \cup Seg(15, 26, 26) \cup Seg(16, 1, 1)
                \cup Seg(16, 3, 5) \cup Seg(16, 13, 14) \cup Seg(16, 22, 24) \cup Seg(16, 26, 26)
                \cup Seg(17, 1, 1) \cup Seg(17, 3, 8) \cup Seg(17, 10, 11) \cup Seg(17, 13, 14)
                \cup Seg(17, 16, 17) \cup Seg(17, 19, 24) \cup Seg(17, 26, 26) \cup Seg(18, 1, 1)
                \cup Seg(18, 3, 8) \cup Seg(18, 10, 11) \cup Seg(18, 13, 14) \cup Seg(18, 16, 17)
                \cup Seg(18, 19, 24) \cup Seg(18, 26, 26) \cup Seg(19, 1, 1) \cup Seg(19, 3, 5)
                \cup Seg(19, 10, 11) \cup Seg(19, 13, 14) \cup Seg(19, 16, 17) \cup Seg(19, 22, 24)
                \cup Seg(19, 26, 26) \cup Seg(20, 1, 11) \cup Seg(20, 13, 14) \cup Seg(20, 16, 26)
                \cup Seg(21, 1, 1) \cup Seg(21, 7, 11) \cup Seg(21, 13, 14) \cup Seg(21, 16, 20)
                \cup Seg(21, 26, 26) \cup Seg(22, 1, 5) \cup Seg(22, 7, 11) \cup Seg(22, 13, 14)
                \cup Seg(22, 16, 20) \cup Seg(22, 22, 26) \cup Seg(23, 1, 1) \cup Seg(23, 10, 17)
                \cup Seg(23, 26, 26) \cup Seg(24, 1, 26) \cup Seg(25, 1, 26) \cup Seg(26, 1, 26)
                \cup Seg(27, 1, 26) \cup Seg(28, 1, 26) \cup Seg(29, 1, 26)),
        dots_eaten |-> 557, total_pellets |-> TotalPellets,
        frightened_timer |-> 0, mode_timeline |-> Timeline(1), mode_index |-> 1543,
        current_mode |-> "chase", mode_timer |-> -111102,
        fruit |-> [spawned |-> 2, spawns_per_level |-> 2, active |-> FALSE, timer |-> 0, points |-> 100],
        level |-> 1 ],
    hist |-> [ caps |-> 2, since_loss |-> FALSE, awards |-> 0, spawns |-> << 70, 70 >> ] ]

\* Level 1, three 50 ms frames after S_last: the player is one step above the
\* last pellet.
S_clear1 ==
  [ state |-> "play", paused |-> FALSE, ready_timer |-> -50, level |-> 1,
    glitch_override |-> FALSE, high_score |-> 6330, bonus_life_awarded |-> FALSE,
    player |-> [ x |-> 9 * U + HalfU, y |-> 5500000, score |-> 6330, lives |-> 1, eat_ghost_combo |-> 2,
                 direction |-> DDown, next_direction |-> DDown ],
    ghosts |-> <<
         [ x |-> 4456000, y |-> 14 * U, speed |-> 260190, mode |-> "chase", frightened |-> FALSE,
           eaten |-> TRUE, home_time |-> 0, dir |-> DLeft,
           elroy1_done |-> TRUE, elroy2_done |-> TRUE ],
         [ x |-> 4446000, y |-> 14 * U, speed |-> 236000, mode |-> "chase", frightened |-> FALSE,
           eaten |-> FALSE, home_time |-> 0, dir |-> DLeft,
           elroy1_done |-> FALSE, elroy2_done |-> FALSE ],
         [ x |-> 4456000, y |-> 14 * U, speed |-> 236000, mode |-> "chase", frightened |-> FALSE,
           eaten |-> TRUE, home_time |-> 0, dir |-> DLeft,
           elroy1_done |-> FALSE, elroy2_done |-> FALSE ],
         [ x |-> 4407000, y |-> 14 * U, speed |-> 236000, mode |-> "chase", frightened |-> FALSE,
           eaten |-> FALSE, home_time |-> 0, dir |-> DLeft,
           elroy1_done |-> FALSE, elroy2_done |-> FALSE ] >>,
    level_data |->
      [ maze |-> Eaten(BaseMaze,
                  Seg(1, 1, 26) \cup Seg(2, 1, 1) \cup Seg(2, 10, 17) \cup Seg(2, 26, 26)
                \cup Seg(3, 1, 1) \cup Seg(3, 3, 5) \cup Seg(3, 7, 8) \cup Seg(3, 10, 17)
                \cup Seg(3, 19, 20) \cup Seg(3, 22, 24) \cup Seg(3, 26, 26) \cup Seg(4, 1, 1)
                \cup Seg(4, 7, 8) \cup Seg(4, 10, 17) \cup Seg(4, 19, 20) \cup Seg(4, 26, 26)
                \cup Seg(5, 1, 5) \cup Seg(5, 7, 8) \cup Seg(5, 10, 17) \cup Seg(5, 19, 20)
                \cup Seg(5, 22, 26) \cup Seg(6, 1, 5) \cup Seg(6, 10, 11) \cup Seg(6, 13, 14)
                \cup Seg(6, 16, 17) \cup Seg(6, 22, 26) \cup Seg(7, 1, 8) \cup Seg(7, 10, 11)
                \cup Seg(7, 13, 14) \cup Seg(7, 16, 17) \cup Seg(7, 19, 26) \cup Seg(8, 1, 8)
                \cup Seg(8, 10, 11) \cup Seg(8, 13, 14) \cup Seg(8, 16, 17) \cup Seg(8, 19, 26)
                \cup Seg(9, 1, 5) \cup Seg(9, 13, 14) \cup Seg(9, 22, 26) \cup Seg(10, 1, 26)
                \cup Seg(11, 1, 5) \cup Seg(11, 7, 8) \cup Seg(11, 19, 20) \cup Seg(11, 22, 26)
                \cup Seg(12, 1, 5) \cup Seg(12, 7, 20) \cup Seg(12, 22, 26) \cup Seg(13, 1, 5)
                \cup Seg(13, 7, 9) \cup Seg(13, 18, 20) \cup Seg(13, 22, 26) \cup Seg(14, 1, 1)
                \cup Seg(14, 7, 8) \cup Seg(14, 18, 20) \cup Seg(14, 26, 26) \cup Seg(15, 1, 1)
                \cup Seg(15, 3, 9) \cup Seg(15, 18, 24) \cup Seg(15, 26, 26) \cup Seg(16, 1, 1)
                \cup Seg(16, 3, 5) \cup Seg(16, 13, 14) \cup Seg(16, 22, 24) \cup Seg(16, 26, 26)
                \cup Seg(17, 1, 1) \cup Seg(17, 3, 8) \cup Seg(17, 10, 11) \cup Seg(17, 13, 14)
                \cup Seg(17, 16, 17) \cup Seg(17, 19, 24) \cup Seg(17, 26, 26) \cup Seg(18, 1, 1)
                \cup Seg(18, 3, 8) \cup Seg(18, 10, 11) \cup Seg(18, 13, 14) \cup Seg(18, 16, 17)
                \cup Seg(18, 19, 24) \cup Seg(18, 26, 26) \cup Seg(19, 1, 1) \cup Seg(19, 3, 5)
                \cup Seg(19, 10, 11) \cup Seg(19, 13, 14) \cup Seg(19, 16, 17) \cup Seg(19, 22, 24)
                \cup Seg(19, 26, 26) \cup Seg(20, 1, 11) \cup Seg(20, 13, 14) \cup Seg(20, 16, 26)
                \cup Seg(21, 1, 1) \cup Seg(21, 7, 11) \cup Seg(21, 13, 14) \cup Seg(21, 16, 20)
                \cup Seg(21, 26, 26) \cup Seg(22, 1, 5) \cup Seg(22, 7, 11) \cup Seg(22, 13, 14)
                \cup Seg(22, 16, 20) \cup Seg(22, 22, 26) \cup Seg(23, 1, 1) \cup Seg(23, 10, 17)
                \cup Seg(23, 26, 26) \cup Seg(24, 1, 26) \cup Seg(25, 1, 26) \cup Seg(26, 1, 26)
                \cup Seg(27, 1, 26) \cup Seg(28, 1, 26) \cup Seg(29, 1, 26)),
        dots_eaten |-> 557, total_pellets |-> TotalPellets,
        frightened_timer |-> 0, mode_timeline |-> Timeline(1), mode_index |-> 1537,
        current_mode |-> "chase", mode_timer |-> -110802,
        fruit |-> [spawned |-> 2, spawns_per_level |-> 2, active |-> FALSE, timer |-> 0, points |-> 100],
        level |-> 1 ],
    hist |-> [ caps |-> 2, since_loss |-> FALSE, awards |-> 0, spawns |-> << 70, 70 >> ] ]

\* The first game with other pellets left for last: the power pellet at (1, 3)
\* and the pellet below it. Level 1, 0.2 s after the power pellet:
\* the countdown is at 5.8 s and the player is one step above the last pellet.
S_ppclear ==
  [ state |-> "play", paused |-> FALSE, ready_timer |-> -50, level |-> 1,
    glitch_override |-> FALSE, high_score |-> 5730, bonus_life_awarded |-> FALSE,
    player |-> [ x |-> 1 * U + HalfU, y |-> 1500000, score |-> 5730, lives |-> 1, eat_ghost_combo |-> 0,
                 direction |-> DDown, next_direction |-> DDown ],
    ghosts |-> <<
         [ x |-> 4456000, y |-> 14 * U, speed |-> 260190, mode |-> "chase", frightened |-> TRUE,
           eaten |-> FALSE, home_time |-> 0, dir |-> DLeft,
           elroy1_done |-> TRUE, elroy2_done |-> TRUE ],
         [ x |-> 4446000, y |-> 14 * U, speed |-> 236000, mode |-> "chase", frightened |-> TRUE,
           eaten |-> FALSE, home_time |-> 0, dir |-> DLeft,
           elroy1_done |-> FALSE, elroy2_done |-> FALSE ],
         [ x |-> 4456000, y |-> 14 * U, speed |-> 236000, mode |-> "chase", frightened |-> TRUE,
           eaten |-> FALSE, home_time |-> 0, dir |-> DLeft,
           elroy1_done |-> FALSE, elroy2_done |-> FALSE ],
         [ x |-> 4407000, y |-> 14 * U, speed |-> 236000, mode |-> "chase", frightened |-> TRUE,
           eaten |-> FALSE, home_time |-> 0, dir |-> DLeft,
           elroy1_done |-> FALSE, elroy2_done |-> FALSE ] >>,
    level_data |->
      [ maze |-> Eaten(BaseMaze,
                  Seg(1, 1, 26) \cup Seg(2, 1, 1) \cup Seg(2, 10, 17) \cup Seg(2, 26, 26)
                \cup Seg(3, 1, 1) \cup Seg(3, 3, 5) \cup Seg(3, 7, 8) \cup Seg(3, 10, 17)
                \cup Seg(3, 19, 20) \cup Seg(3, 22, 24) \cup Seg(3, 26, 26) \cup Seg(4, 7, 8)
                \cup Seg(4, 10, 17) \cup Seg(4, 19, 20) \cup Seg(4, 26, 26) \cup Seg(5, 1, 5)
                \cup Seg(5, 7, 8) \cup Seg(5, 10, 17) \cup Seg(5, 19, 20) \cup Seg(5, 22, 26)
                \cup Seg(6, 1, 5) \cup Seg(6, 10, 11) \cup Seg(6, 13, 14) \cup Seg(6, 16, 17)
                \cup Seg(6, 22, 26) \cup Seg(7, 1, 8) \cup Seg(7, 10, 11) \cup Seg(7, 13, 14)
                \cup Seg(7, 16, 17) \cup Seg(7, 19, 26) \cup Seg(8, 1, 8) \cup Seg(8, 10, 11)
                \cup Seg(8, 13, 14) \cup Seg(8, 16, 17) \cup Seg(8, 19, 26) \cup Seg(9, 1, 5)
                \cup Seg(9, 13, 14) \cup Seg(9, 22, 26) \cup Seg(10, 1, 26) \cup Seg(11, 1, 5)
                \cup Seg(11, 7, 8) \cup Seg(11, 19, 20) \cup Seg(11, 22, 26) \cup Seg(12, 1, 5)
                \cup Seg(12, 7, 20) \cup Seg(12, 22, 26) \cup Seg(13, 1, 5) \cup Seg(13, 7, 9)
                \cup Seg(13, 18, 20) \cup Seg(13, 22, 26) \cup Seg(14, 1, 1) \cup Seg(14, 7, 9)
                \cup Seg(14, 18, 20) \cup Seg(14, 26, 26) \cup Seg(15, 1, 1) \cup Seg(15, 3, 9)
                \cup Seg(15, 18, 24) \cup Seg(15, 26, 26) \cup Seg(16, 1, 1) \cup Seg(16, 3, 5)
                \cup Seg(16, 13, 14) \cup Seg(16, 22, 24) \cup Seg(16, 26, 26) \cup Seg(17, 1, 1)
                \cup Seg(17, 3, 8) \cup Seg(17, 10, 11) \cup Seg(17, 13, 14) \cup Seg(17, 16, 17)
                \cup Seg(17, 19, 24) \cup Seg(17, 26, 26) \cup Seg(18, 1, 1) \cup Seg(18, 3, 8)
                \cup Seg(18, 10, 11) \cup Seg(18, 13, 14) \cup Seg(18, 16, 17) \cup Seg(18, 19, 24)
                \cup Seg(18, 26, 26) \cup Seg(19, 1, 1) \cup Seg(19, 3, 5) \cup Seg(19, 10, 11)
                \cup Seg(19, 13, 14) \cup Seg(19, 16, 17) \cup Seg(19, 22, 24) \cup Seg(19, 26, 26)
                \cup Seg(20, 1, 11) \cup Seg(20, 13, 14) \cup Seg(20, 16, 26) \cup Seg(21, 1, 1)
                \cup Seg(21, 7, 11) \cup Seg(21, 13, 14) \cup Seg(21, 16, 20) \cup Seg(21, 26, 26)
                \cup Seg(22, 1, 5) \cup Seg(22, 7, 11) \cup Seg(22, 13, 14) \cup Seg(22, 16, 20)
                \cup Seg(22, 22, 26) \cup Seg(23, 1, 1) \cup Seg(23, 10, 17) \cup Seg(23, 26, 26)
                \cup Seg(24, 1, 26) \cup Seg(25, 1, 26) \cup Seg(26, 1, 26) \cup Seg(27, 1, 26)
                \cup Seg(28, 1, 26) \cup Seg(29, 1, 26)),
        dots_eaten |-> 557, total_pellets |-> TotalPellets,
        frightened_timer |-> 5800, mode_timeline |-> Timeline(1), mode_index |-> 1391,
        current_mode |-> "chase", mode_timer |-> -103450,
        fruit |-> [spawned |-> 2, spawns_per_level |-> 2, active |-> FALSE, timer |-> 0, points |-> 100],
        level |-> 1 ],
    hist |-> [ caps |-> 0, since_loss |-> FALSE, awards |-> 0, spawns |-> << 70, 70 >> ] ]

\* Level 9, 9990 points: the player is one step left of the pellet at (23, 24).
S_bonus ==
  [ state |-> "play", paused |-> FALSE, ready_timer |-> -100, level |-> 9,
    glitch_override |-> FALSE, high_score |-> 9990, bonus_life_awarded |-> FALSE,
    player |-> [ x |-> 9100000, y |-> 24 * U + HalfU, score |-> 9990, lives |-> 3, eat_ghost_combo |-> 0,
                 direction |-> DRight, next_direction |-> DRight ],
    ghosts |-> <<
         [ x |-> 13 * U + HalfU, y |-> 11 * U + HalfU, speed |-> 330400, mode |-> "chase", frightened |-> FALSE,
           eaten |-> FALSE, home_time |-> 0, dir |-> DUp,
           elroy1_done |-> FALSE, elroy2_done |-> FALSE ],
         [ x |-> 4469600, y |-> 14 * U, speed |-> 330400, mode |-> "chase", frightened |-> FALSE,
           eaten |-> FALSE, home_time |-> 0, dir |-> DLeft,
           elroy1_done |-> FALSE, elroy2_done |-> FALSE ],
         [ x |-> 4408800, y |-> 5682600, speed |-> 330400, mode |-> "chase", frightened |-> FALSE,
           eaten |-> FALSE, home_time |-> 0, dir |-> DLeft,
           elroy1_done |-> FALSE, elroy2_done |-> FALSE ],
         [ x |-> 4430600, y |-> 14 * U, speed |-> 330400, mode |-> "chase", frightened |-> FALSE,
           eaten |-> FALSE, home_time |-> 0, dir |-> DLeft,
           elroy1_done |-> FALSE, elroy2_done |-> FALSE ] >>,
    level_data |->
      [ maze |-> Eaten(BaseMaze,
                  Seg(1, 1, 26) \cup Seg(2, 1, 1) \cup Seg(2, 10, 17) \cup Seg(2, 26, 26)
                \cup Seg(3, 1, 1) \cup Seg(3, 7, 8) \cup Seg(3, 10, 17) \cup Seg(3, 19, 20)
                \cup Seg(3, 26, 26) \cup Seg(4, 1, 1) \cup Seg(4, 7, 8) \cup Seg(4, 10, 17)
                \cup Seg(4, 19, 20) \cup Seg(4, 26, 26) \cup Seg(5, 1, 5) \cup Seg(5, 7, 8)
                \cup Seg(5, 10, 17) \cup Seg(5, 19, 20) \cup Seg(5, 22, 26) \cup Seg(6, 1, 5)
                \cup Seg(6, 10, 11) \cup Seg(6, 13, 14) \cup Seg(6, 16, 17) \cup Seg(6, 22, 26)
                \cup Seg(7, 1, 8) \cup Seg(7, 10, 11) \cup Seg(7, 13, 14) \cup Seg(7, 16, 17)
                \cup Seg(7, 19, 26) \cup Seg(8, 1, 8) \cup Seg(8, 10, 11) \cup Seg(8, 13, 14)
                \cup Seg(8, 16, 17) \cup Seg(8, 19, 26) \cup Seg(9, 1, 5) \cup Seg(9, 13, 14)
                \cup Seg(9, 22, 26) \cup Seg(10, 1, 8) \cup Seg(10, 13, 26) \cup Seg(11, 1, 5)
                \cup Seg(11, 7, 8) \cup Seg(11, 19, 20) \cup Seg(11, 22, 26) \cup Seg(12, 1, 5)
                \cup Seg(12, 7, 20) \cup Seg(12, 22, 26) \cup Seg(13, 1, 5) \cup Seg(13, 7, 9)
                \cup Seg(13, 18, 20) \cup Seg(13, 22, 26) \cup Seg(14, 1, 1) \cup Seg(14, 7, 9)
                \cup Seg(14, 18, 20) \cup Seg(14, 26, 26) \cup Seg(15, 1, 1) \cup Seg(15, 3, 9)
                \cup Seg(15, 18, 22) \cup Seg(15, 26, 26) \cup Seg(16, 1, 1) \cup Seg(16, 3, 5)
                \cup Seg(16, 13, 14) \cup Seg(16, 22, 22) \cup Seg(16, 26, 26) \cup Seg(17, 1, 1)
                \cup Seg(17, 3, 5) \cup Seg(17, 10, 11) \cup Seg(17, 13, 14) \cup Seg(17, 16, 17)
                \cup Seg(17, 22, 22) \cup Seg(17, 26, 26) \cup Seg(18, 1, 1) \cup Seg(18, 3, 5)
                \cup Seg(18, 10, 11) \cup Seg(18, 13, 14) \cup Seg(18, 16, 17) \cup Seg(18, 22, 22)
                \cup Seg(18, 26, 26) \cup Seg(19, 1, 1) \cup Seg(19, 3, 5) \cup Seg(19, 10, 11)
                \cup Seg(19, 13, 14) \cup Seg(19, 16, 17) \cup Seg(19, 22, 22) \cup Seg(19, 26, 26)
                \cup Seg(20, 1, 5) \cup Seg(20, 10, 11) \cup Seg(20, 13, 14) \cup Seg(20, 16, 22)
                \cup Seg(20, 26, 26) \cup Seg(21, 1, 1) \cup Seg(21, 10, 11) \cup Seg(21, 13, 14)
                \cup Seg(21, 16, 20) \cup Seg(21, 26, 26) \cup Seg(22, 1, 4) \cup Seg(22, 10, 11)
                \cup Seg(22, 13, 14) \cup Seg(22, 16, 20) \cup Seg(22, 22, 26) \cup Seg(23, 1, 1)
                \cup Seg(23, 10, 17) \cup Seg(24, 1, 22) \cup Seg(25, 1, 22) \cup Seg(26, 1, 22)
                \cup Seg(27, 1, 22) \cup Seg(28, 1, 22) \cup Seg(29, 1, 22)),
        dots_eaten |-> 487, total_pellets |-> TotalPellets,
        frightened_timer |-> 0, mode_timeline |-> Timeline(9), mode_index |-> 693,
        current_mode |-> "chase", mode_timer |-> -44050,
        fruit |-> [spawned |-> 2, spawns_per_level |-> 2, active |-> FALSE, timer |-> 9400, points |-> 5000],
        level |-> 9 ],
    hist |-> [ caps |-> 0, since_loss |-> FALSE, awards |-> 0, spawns |-> << 70, 70 >> ] ]

\* Level 256, a life lost in it, one pellet left, at (24, 3): the player is one
\* step left of it.
S_clear256 ==
  [ state |-> "play", paused |-> FALSE, ready_timer |-> -50, level |-> 256,
    glitch_override |-> FALSE, high_score |-> 10740, bonus_life_awarded |-> TRUE,
    player |-> [ x |-> 9500000, y |-> 3 * U + HalfU, score |-> 5730, lives |-> 2, eat_ghost_combo |-> 0,
                 direction |-> DRight, next_direction |-> DRight ],
    ghosts |-> <<
         [ x |-> 6648912, y |-> 14 * U, speed |-> 416304, mode |-> "chase", frightened |-> FALSE,
           eaten |-> FALSE, home_time |-> 0, dir |-> DRight,
           elroy1_done |-> TRUE, elroy2_done |-> TRUE ],
         [ x |-> 4422400, y |-> 14 * U, speed |-> 377600, mode |-> "chase", frightened |-> FALSE,
           eaten |-> FALSE, home_time |-> -1350, dir |-> DLeft,
           elroy1_done |-> FALSE, elroy2_done |-> FALSE ],
         [ x |-> 4456000, y |-> 14 * U, speed |-> 377600, mode |-> "chase", frightened |-> FALSE,
           eaten |-> FALSE, home_time |-> 0, dir |-> DLeft,
           elroy1_done |-> FALSE, elroy2_done |-> FALSE ],
         [ x |-> 4489600, y |-> 14 * U, speed |-> 377600, mode |-> "chase", frightened |-> FALSE,
           eaten |-> FALSE, home_time |-> 0, dir |-> DLeft,
           elroy1_done |-> FALSE, elroy2_done |-> FALSE ] >>,
    level_data |->
      [ maze |-> Eaten(BaseMaze,
                  Seg(1, 1, 26) \cup Seg(2, 1, 1) \cup Seg(2, 10, 17) \cup Seg(2, 26, 26)
                \cup Seg(3, 1, 1) \cup Seg(3, 3, 5) \cup Seg(3, 7, 8) \cup Seg(3, 10, 17)
                \cup Seg(3, 19, 20) \cup Seg(3, 22, 23) \cup Seg(3, 26, 26) \cup Seg(4, 1, 1)
                \cup Seg(4, 7, 8) \cup Seg(4, 10, 17) \cup Seg(4, 19, 20) \cup Seg(4, 26, 26)
                \cup Seg(5, 1, 5) \cup Seg(5, 7, 8) \cup Seg(5, 10, 17) \cup Seg(5, 19, 20)
                \cup Seg(5, 22, 26) \cup Seg(6, 1, 5) \cup Seg(6, 10, 11) \cup Seg(6, 13, 14)
                \cup Seg(6, 16, 17) \cup Seg(6, 22, 26) \cup Seg(7, 1, 8) \cup Seg(7, 10, 11)
                \cup Seg(7, 13, 14) \cup Seg(7, 16, 17) \cup Seg(7, 19, 26) \cup Seg(8, 1, 8)
                \cup Seg(8, 10, 11) \cup Seg(8, 13, 14) \cup Seg(8, 16, 17) \cup Seg(8, 19, 26)
                \cup Seg(9, 1, 5) \cup Seg(9, 13, 14) \cup Seg(9, 22, 26) \cup Seg(10, 1, 26)
                \cup Seg(11, 1, 5) \cup Seg(11, 7, 8) \cup Seg(11, 19, 20) \cup Seg(11, 22, 26)
                \cup Seg(12, 1, 5) \cup Seg(12, 7, 20) \cup Seg(12, 22, 26) \cup Seg(13, 1, 5)
                \cup Seg(13, 7, 9) \cup Seg(13, 18, 20) \cup Seg(13, 22, 26) \cup Seg(14, 1, 1)
                \cup Seg(14, 7, 9) \cup Seg(14, 18, 20) \cup Seg(14, 26, 26) \cup Seg(15, 1, 1)
                \cup Seg(15, 3, 9) \cup Seg(15, 18, 24) \cup Seg(15, 26, 26) \cup Seg(16, 1, 1)
                \cup Seg(16, 3, 5) \cup Seg(16, 13, 14) \cup Seg(16, 22, 24) \cup Seg(16, 26, 26)
                \cup Seg(17, 1, 1) \cup Seg(17, 3, 8) \cup Seg(17, 10, 11) \cup Seg(17, 13, 14)
                \cup Seg(17, 16, 17) \cup Seg(17, 19, 24) \cup Seg(17, 26, 26) \cup Seg(18, 1, 1)
                \cup Seg(18, 3, 8) \cup Seg(18, 10, 11) \cup Seg(18, 13, 14) \cup Seg(18, 16, 17)
                \cup Seg(18, 19, 24) \cup Seg(18, 26, 26) \cup Seg(19, 1, 1) \cup Seg(19, 3, 5)
                \cup Seg(19, 10, 11) \cup Seg(19, 13, 14) \cup Seg(19, 16, 17) \cup Seg(19, 22, 24)
                \cup Seg(19, 26, 26) \cup Seg(20, 1, 11) \cup Seg(20, 13, 14) \cup Seg(20, 16, 26)
                \cup Seg(21, 1, 1) \cup Seg(21, 7, 11) \cup Seg(21, 13, 14) \cup Seg(21, 16, 20)
                \cup Seg(21, 26, 26) \cup Seg(22, 1, 5) \cup Seg(22, 7, 11) \cup Seg(22, 13, 14)
                \cup Seg(22, 16, 20) \cup Seg(22, 22, 26) \cup Seg(23, 1, 1) \cup Seg(23, 10, 17)
                \cup Seg(23, 26, 26) \cup Seg(24, 1, 26) \cup Seg(25, 1, 26) \cup Seg(26, 1, 26)
                \cup Seg(27, 1, 26) \cup Seg(28, 1, 26) \cup Seg(29, 1, 26)),
        dots_eaten |-> 557, total_pellets |-> TotalPellets,
        frightened_timer |-> 0, mode_timeline |-> Timeline(256), mode_index |-> 1277,
        current_mode |-> "chase", mode_timer |-> -92500,
        fruit |-> [spawned |-> 2, spawns_per_level |-> 2, active |-> FALSE, timer |-> 0, points |-> 5000],
        level |-> 256 ],
    hist |-> [ caps |-> 0, since_loss |-> TRUE, awards |-> 1, spawns |-> << 70, 70 >> ] ]

Recorded == { S_ready, S_pp1, S_pp5, S_pp9, S_pp21, S_pp26, S_c10, S_over, S_fruit, S_mode, S_elroy, S_cap, S_home, S_hit, S_last, S_stuck, S_clear1, S_ppclear, S_bonus, S_clear256 }

\* the loop starts from s
StartFrom(s) ==
  /\ state = s.state
  /\ paused = s.paused
  /\ ready_timer = s.ready_timer
  /\ level = s.level
  /\ glitch_override = s.glitch_override
  /\ high_score = s.high_score
  /\ bonus_life_awarded = s.bonus_life_awarded
  /\ player = s.player
  /\ ghosts = s.ghosts
  /\ level_data = s.level_data
  /\ hist = s.hist
  /\ frames = 0
  /\ key_presses = 0
  /\ ev = EvOf(s.state, s.level, s.player, s.ghosts, s.level_data)

Init == \E s \in {Construction} \cup Recorded : StartFrom(s)

-----------------------------------------------------------------------------
(* One play frame: the body of "elif state == STATE_PLAY" when not paused   *)

\* everything from the pursuers' loop up to and including the collisions,
\* after Player.update has given pu = << player, level_data >>; the result
\* carries the player, the pursuers, the level data and the game state
FrameToCollisions(pu, dt, draw, fr) ==
  LET gs1 == GhostLoop(ghosts, 1, pu[2], pu[1], dt, draw)
      ld2 == FrightTick(ModeTick(pu[2], dt), dt)
      dots_eaten == ld2.dots_eaten
      fs == FruitStep(pu[1], ld2, level, dt, fr)
      bl == BonusLife(fs[1], bonus_life_awarded)
      hs == HighScore(bl[1], high_score)
      c0 == [p |-> bl[1], gs |-> gs1, ld |-> fs[2], state |-> state, captures |-> <<>>, lost |-> 0]
      c == Collisions(c0, 1, level)
  IN  [ p |-> c.p, gs |-> c.gs, ld |-> c.ld, state |-> c.state, awarded |-> bl[2], high |-> hs,
        dots_eaten |-> dots_eaten, seen |-> Seen(gs1), captures |-> c.captures, lost |-> c.lost,
        g1 |-> gs1, spawn |-> FruitSpawns(ld2), bonus |-> bl[1].lives - fs[1].lives,
        bonus_score |-> fs[1].score,
        passes |-> [k \in 1..5 |-> PassView(Pass(c0, k - 1, level))],
        left |-> CountPellets(c.ld.maze) ]

\* what the player's bite of this frame was
Ate(pu) ==
  IF pu[2].dots_eaten = level_data.dots_eaten THEN "none"
  ELSE IF CellUnder(pu[1], level_data.maze) = 3 THEN "power" ELSE "pellet"

\* the score of the player object the frame ends with before reset_level()
\* replaces it: "player.score += level_bonus" when the level is clear
LevelClearScore(p, dots_eaten, ld) ==
  IF LevelClear(dots_eaten, ld) THEN p.score + LevelBonus(level) ELSE p.score

\* the history record of a play frame
FrameEv(pu, f, dt) ==
  [ played |-> TRUE, reset |-> LevelClear(f.dots_eaten, f.ld), dt |-> dt, level |-> level,
    mode_index |-> level_data.mode_index, combo |-> player.eat_ghost_combo,
    ate |-> Ate(pu), armed |-> pu[2].frightened_timer, combo_eat |-> pu[1].eat_ghost_combo,
    seen |-> f.seen, captures |-> f.captures, lost |-> f.lost, lives |-> f.p.lives,
    over |-> (f.state = "over"), cleared |-> LevelClear(f.dots_eaten, f.ld), dots |-> f.dots_eaten,
    total |-> f.ld.total_pellets, pre_clear_score |-> f.p.score,
    clear_score |-> LevelClearScore(f.p, f.dots_eaten, f.ld),
    pre_clear_combo |-> f.p.eat_ghost_combo,
    p0 |-> player, p1 |-> pu[1], mode |-> pu[2].current_mode, timer |-> pu[2].frightened_timer,
    g0 |-> ghosts, g1 |-> f.g1, spawn |-> f.spawn, bonus |-> f.bonus,
    bonus_score |-> f.bonus_score, passes |-> f.passes, left |-> f.left ]

\* the history after a play frame: the captures and the life losses since
\* the last power pellet, the bonus lives of the game, and the consumed-pellet
\* counts at which the level's bonus items were spawned
FrameHist(ate, f) ==
  [ caps |-> (IF ate = "power" THEN 0 ELSE hist.caps) + Len(f.captures),
    since_loss |-> IF LevelClear(f.dots_eaten, f.ld) THEN FALSE
                   ELSE IF f.lost > 0 /\ f.p.lives > 0 THEN TRUE
                   ELSE IF ate = "power" THEN FALSE
                   ELSE hist.since_loss,
    awards |-> hist.awards + f.bonus,
    spawns |-> IF LevelClear(f.dots_eaten, f.ld) THEN <<>>
               ELSE IF f.spawn THEN Append(hist.spawns, f.dots_eaten)
               ELSE hist.spawns ]

\* the end of the frame: the level clear, with rl what reset_level() gives for
\* the level lv, and Blinky's Elroy tests
FrameEnd(f, lv, rl) ==
  IF LevelClear(f.dots_eaten, f.ld)
  THEN /\ level' = lv
       /\ player' = rl[1]
       /\ ghosts' = [rl[2] EXCEPT ![1] = Elroy(@, rl[3].total_pellets - f.dots_eaten)]
       /\ level_data' = rl[3]
       /\ state' = "ready"
       /\ ready_timer' = 2000
  ELSE /\ level' = level
       /\ player' = f.p
       /\ ghosts' = [f.gs EXCEPT ![1] = Elroy(@, f.ld.total_pellets - f.dots_eaten)]
       /\ level_data' = f.ld
       /\ state' = f.state
       /\ ready_timer' = ready_timer

\* the frame's writes, f being the frame up to the collisions
FrameWrites(pu, f, dt, draws) ==
  /\ bonus_life_awarded' = f.awarded
  /\ high_score' = f.high
  /\ ev' = FrameEv(pu, f, dt)
  /\ hist' = FrameHist(Ate(pu), f)
  /\ FrameEnd(f, NextLevel(level), reset_level(NextLevel(level), glitch_override, draws))
  /\ frames' = frames + 1
  /\ UNCHANGED << glitch_override, paused, key_presses >>

\* the play frame after Player.update has given pu, with the frame time, the
\* frightened pursuers' draw, the fruit's draw and the glitch draws of a level
\* clear
Frame(pu, dt, draw, fr, draws) ==
  FrameWrites(pu, FrameToCollisions(pu, dt, draw, fr), dt, draws)

-----------------------------------------------------------------------------
(* The inputs of a frame                                                    *)

\* the frames of the loop a behaviour takes
MaxFrames == 2

\* the key presses a behaviour takes
MaxKeys == 1

\* the frame times, in ms, clock.tick returns
FrameTimes == {50, 200}

\* the milliseconds random.random() adds to a fruit's nine seconds
FruitRandoms == {0, 500}

\* the draw that turns no pursuer
NoTurn == [turn |-> FALSE, pick |-> DUp]

\* the draws that matter to a frame: the pursuers draw when the countdown
\* runs, the fruit draws when it spawns, the glitch loop when the level clears.
\* The frightened pursuers of one frame are given the same draw.
DrawsOf(ld) == IF FrightenedFlag(ld) THEN Draws ELSE {NoTurn}
FruitRandomsOf(ld) == IF FruitSpawns(ld) THEN FruitRandoms ELSE {0}
GlitchOf(ld) ==
  IF LevelClear(ld.dots_eaten, ld) THEN DrawsFor(glitch_override, NextLevel(level)) ELSE { <<>> }

\* the rest of a play frame after Player.update has given pu
PlayRest(pu, dt) ==
  \E draw \in DrawsOf(pu[2]), fr \in FruitRandomsOf(pu[2]), draws \in GlitchOf(pu[2]) :
    Frame(pu, dt, draw, fr, draws)

PlayFrame ==
  /\ state = "play" /\ ~paused
  /\ frames < MaxFrames
  /\ \E key \in Keys, dt \in FrameTimes : PlayRest(PlayerUpdate(player, level_data, key, dt), dt)

\* "elif state == STATE_READY"
ReadyFrame ==
  /\ state = "ready"
  /\ frames < MaxFrames
  /\ \E dt \in FrameTimes :
       /\ ready_timer' = ready_timer - dt
       /\ state' = IF ready_timer - dt <= 0 THEN "play" ELSE "ready"
       /\ ev' = [NoEv EXCEPT !.dt = dt]
  /\ frames' = frames + 1
  /\ UNCHANGED << paused, level, glitch_override, high_score, bonus_life_awarded,
                  player, ghosts, level_data, key_presses, hist >>

\* a frame on the title screen, on the game-over screen or while paused
IdleFrame ==
  /\ state \in {"title", "over"} \/ (state = "play" /\ paused)
  /\ frames < MaxFrames
  /\ frames' = frames + 1
  /\ ev' = NoEv
  /\ UNCHANGED << state, paused, ready_timer, level, glitch_override, high_score,
                  bonus_life_awarded, player, ghosts, level_data, key_presses, hist >>

-----------------------------------------------------------------------------
(* The key events                                                           *)

\* K_SPACE with the glitch draws of the reset it may call
Space(draws) ==
  /\ state # "ready"
  /\ IF state = "play"
     THEN /\ draws = <<>>
          /\ paused' = ~paused
          /\ ev' = NoEv
          /\ UNCHANGED << state, ready_timer, level, bonus_life_awarded, player, ghosts,
                          level_data, hist >>
     ELSE LET lv == IF state = "over" THEN 1 ELSE level
              rl == reset_level(lv, glitch_override, draws)
          IN  /\ draws \in DrawsFor(glitch_override, lv)
              /\ level' = lv
              /\ bonus_life_awarded' = (IF state = "over" THEN FALSE ELSE bonus_life_awarded)
              /\ player' = rl[1]
              /\ ghosts' = rl[2]
              /\ level_data' = rl[3]
              /\ state' = "ready"
              /\ ready_timer' = 1600
              /\ paused' = paused
              /\ ev' = [NoEv EXCEPT !.reset = TRUE]
              /\ hist' = NoHist
  /\ key_presses' = key_presses + 1
  /\ UNCHANGED << glitch_override, high_score, frames >>

KeySpace ==
  /\ key_presses < MaxKeys
  /\ \E draws \in (IF state = "play" THEN { <<>> }
                   ELSE DrawsFor(glitch_override, IF state = "over" THEN 1 ELSE level)) :
       Space(draws)

\* K_g with the glitch draws of its reset: toggles the override and
\* regenerates the level in whatever state
Glitch(draws) ==
  /\ draws \in DrawsFor(~glitch_override, level)
  /\ glitch_override' = ~glitch_override
  /\ LET rl == reset_level(level, ~glitch_override, draws)
     IN  /\ player' = rl[1]
         /\ ghosts' = rl[2]
         /\ level_data' = rl[3]
  /\ key_presses' = key_presses + 1
  /\ ev' = [NoEv EXCEPT !.reset = TRUE]
  /\ hist' = [NoHist EXCEPT !.awards = hist.awards]
  /\ UNCHANGED << state, paused, ready_timer, level, high_score, bonus_life_awarded, frames >>

KeyG ==
  /\ key_presses < MaxKeys
  /\ \E draws \in DrawsFor(~glitch_override, level) : Glitch(draws)

Next ==
  \/ KeySpace
  \/ KeyG
  \/ ReadyFrame
  \/ IdleFrame
  \/ PlayFrame

Spec == Init /\ [][Next]_vars

-----------------------------------------------------------------------------
(* Play that continues: frames at a constant frame rate with no key pressed  *)

\* the frames of the loop such a behaviour takes
MaxLongFrames == 1700

\* the levels played and the frame times, in ms, of the constant frame rates
LongLevels == {1, 2}
LongFrameTimes == {50, 200}

\* the state the "ready" countdown leaves at the start of level lv
LevelStart(lv) ==
  [ state |-> "play", paused |-> FALSE, ready_timer |-> 0, level |-> lv,
    glitch_override |-> FALSE, high_score |-> 0, bonus_life_awarded |-> FALSE,
    player |-> reset_level(lv, FALSE, <<>>)[1],
    ghosts |-> reset_level(lv, FALSE, <<>>)[2],
    level_data |-> reset_level(lv, FALSE, <<>>)[3],
    hist |-> NoHist ]

\* such play starts at a level start or in the recorded state S_stuck
LongInit == \E s \in {LevelStart(lv) : lv \in LongLevels} \cup {S_stuck} : StartFrom(s)

\* the loop is in the play state, not paused, and has frames to take
LongCanRun == state = "play" /\ ~paused /\ frames < MaxLongFrames

\* a play frame with no key pressed, at the frame time of the frame before
LongFrame ==
  /\ LongCanRun
  /\ \E dt \in LongFrameTimes :
       /\ ev.played => dt = ev.dt
       /\ PlayRest(PlayerUpdate(player, level_data, "none", dt), dt)

LongNext == LongFrame

\* the step of the frame counter a frame makes: under LongNext the steps that
\* change frames are the LongFrame steps, and a frame can be run in every
\* state of LongCanRun
FrameRuns == LongCanRun /\ frames' = frames + 1

\* "while running": the loop runs a frame whenever one can be run
LongSpec == LongInit /\ [][LongNext]_vars /\ WF_frames(FrameRuns)

-----------------------------------------------------------------------------
(* The claims                                                               *)

\* the tile under the position (x, y) is a Wall cell of the level's maze
OnWall(x, y) ==
  InGrid(Tile(x), Tile(y)) /\ level_data.maze[Tile(y) + 1][Tile(x) + 1] = 1

\* the index of the final entry of the level's mode timeline
FinalEntry == Len(level_data.mode_timeline) - 1

\* the positions of the five agents
Positions == << player.x, player.y, [i \in 1..4 |-> << ghosts[i].x, ghosts[i].y >>] >>

\* C1: at the end of every play frame, from level start onward, the tile under
\* the player and under each of the four pursuers is not a Wall cell; the
\* positions given at level start, after a life loss and on the home tile are
\* positions a play frame ends with.
C1_AgentsOffWalls ==
  ev.played =>
    /\ ~OnWall(player.x, player.y)
    /\ \A i \in 1..4 : ~OnWall(ghosts[i].x, ghosts[i].y)

\* C1, the case that fails: a play frame ends with Blinky, who has left no
\* home countdown to wait for, standing on a Wall cell.
C1_BlinkyOnWall ==
  /\ ev.played
  /\ state = "play"
  /\ ghosts[1].home_time <= 0
  /\ OnWall(ghosts[1].x, ghosts[1].y)

\* C2: in every reachable state no pursuer has its frightened flag and its
\* eaten flag both set.
C2_FrightenedExcludesEaten ==
  \A i \in 1..4 : ~(ghosts[i].frightened /\ ghosts[i].eaten)

\* C2, the case that fails: a pursuer captured while the frightened countdown
\* is still positive ends the frame frightened and eaten.
C2_CapturedStillFrightened ==
  /\ ev.played
  /\ ev.captures # <<>>
  /\ level_data.frightened_timer > 0
  /\ \E i \in 1..4 : ghosts[i].frightened /\ ghosts[i].eaten

\* C3: within a level the mode timeline index never decreases, never passes
\* the index of the final entry, and once it equals that index a further frame
\* leaves it unchanged.
C3_ModeIndexFreezes ==
  (ev.played /\ ~ev.cleared) =>
    /\ level_data.mode_index >= ev.mode_index
    /\ level_data.mode_index <= FinalEntry
    /\ (ev.mode_index = FinalEntry => level_data.mode_index = ev.mode_index)

\* C3, the case that fails: a frame played with the index on the final entry
\* moves the index one past it.
C3_PastFinalEntry ==
  /\ ev.played /\ ~ev.cleared
  /\ ev.mode_index = FinalEntry
  /\ level_data.mode_index = FinalEntry + 1

\* C4 as stated: a power pellet consumed at level L sets the combo count to 0
\* and the frightened countdown to the level's duration, which is 6.0 s at
\* L = 1, 5.0 s at L = 5, 4.0 s at L = 9, 1.0 s at L = 21, 0.5 s at L = 26 and
\* does not increase with L over 1..256.
C4_PowerPelletAsStated ==
  (ev.played /\ ev.ate = "power") =>
    /\ ev.combo_eat = 0
    /\ ev.armed = frightened_duration_for_level(ev.level)
    /\ (ev.level = 1 => ev.armed = 6000)
    /\ (ev.level = 5 => ev.armed = 5000)
    /\ (ev.level = 9 => ev.armed = 4000)
    /\ (ev.level = 21 => ev.armed = 1000)
    /\ (ev.level = 26 => ev.armed = 500)
    /\ \A l \in 1..255 :
         frightened_duration_for_level(l) >= frightened_duration_for_level(l + 1)

\* C4 as amended: a power pellet consumed at level L sets the combo count to 0
\* and the frightened countdown to the level's duration, which is 6.0 s at
\* L = 1, 4.0 s at L = 5, 3.0 s at L = 9, 1.0 s at L = 21, 0.5 s at L = 26 and
\* does not increase with L over 1..256.
C4_PowerPelletArms ==
  (ev.played /\ ev.ate = "power") =>
    /\ ev.combo_eat = 0
    /\ ev.armed = frightened_duration_for_level(ev.level)
    /\ (ev.level = 1 => ev.armed = 6000)
    /\ (ev.level = 5 => ev.armed = 4000)
    /\ (ev.level = 9 => ev.armed = 3000)
    /\ (ev.level = 21 => ev.armed = 1000)
    /\ (ev.level = 26 => ev.armed = 500)
    /\ \A l \in 1..255 :
         frightened_duration_for_level(l) >= frightened_duration_for_level(l + 1)

\* C4, its case: the player has consumed the power pellet at (1, 27) of
\* level 5 in the last frame, and the countdown was set to 4.0 s.
C4_PowerPelletAtLevel5 ==
  /\ ev.played /\ ev.ate = "power"
  /\ ev.level = 5
  /\ ev.armed = 4000
  /\ ev.combo_eat = 0

\* C5: between two power pellets the k-th capture (k = 1..4) adds
\* 200 * 2^(k-1) to the score and adds one to the combo count, and nothing
\* else changes the combo count: the combo count is the number of captures
\* since the last power pellet.
C5_ComboCountsCaptures ==
  /\ \A j \in 1..Len(ev.captures) :
       LET k == hist.caps - Len(ev.captures) + j
       IN  k <= 4 => ev.captures[j] = 200 * 2 ^ (k - 1)
  /\ player.eat_ghost_combo = hist.caps

\* C5, the case that fails: the level is cleared after captures and before
\* the next power pellet, and the combo count is 0.
C5_ComboLostAtLevelClear ==
  /\ ev.played /\ ev.cleared
  /\ ev.lost = 0
  /\ hist.caps > 0
  /\ ev.combo = hist.caps
  /\ player.eat_ghost_combo = 0

\* C6: a frame in which a life loss brings the life count to 0 ends in the
\* game-over state, whatever else happens in it; and from the game-over state
\* every step but a reset of the level leaves the state and the agents'
\* positions as they are.
C6_GameOverIsTerminal ==
  [][ /\ (ev'.played /\ ev'.lost > 0 /\ ev'.lives <= 0) => state' = "over"
      /\ (state = "over" /\ ~ev'.reset) => (state' = "over" /\ Positions' = Positions)
    ]_vars

\* C6, the case that fails: the frame that takes the last life also consumes
\* the last pellet, and ends in the "ready" state of the next level.
C6_LastLifeAndLastPellet ==
  /\ ev.played
  /\ ev.lost > 0 /\ ev.lives <= 0 /\ ev.over
  /\ ev.cleared
  /\ state = "ready"

\* C7: the consumed-pellet count never rests at the total (completion fires
\* in the frame the count reaches it, so in the first such frame and once per
\* level); a frame completes the level exactly when its count equals the
\* total; completion sets the level to level + 1, or to 1 after level 256;
\* the level is within 1..256.
C7_LevelCompletion ==
  /\ level \in 1..256
  /\ level_data.dots_eaten < level_data.total_pellets
  /\ ev.played => (ev.cleared <=> ev.dots = ev.total)
  /\ ev.cleared => level = (IF ev.level = 256 THEN 1 ELSE ev.level + 1)

\* C7, its case: the last pellet of level 256 was consumed in the last frame
\* and the game is at level 1.
C7_Level256Wraps ==
  /\ ev.played /\ ev.cleared
  /\ ev.dots = ev.total
  /\ ev.level = 256
  /\ level = 1
  /\ level_data.dots_eaten = 0

\* C8: the score after the frame that completes a level is the score before
\* the level-clear step plus 100 * (the completed level).
C8_LevelBonusKept ==
  ev.cleared => player.score = ev.pre_clear_score + 100 * ev.level

\* C8, the case that fails: the bonus was added to a score that the frame
\* does not end with; the score is 0.
C8_LevelBonusDiscarded ==
  /\ ev.played /\ ev.cleared
  /\ ev.lost = 0
  /\ ev.pre_clear_score > 0
  /\ ev.clear_score = ev.pre_clear_score + 100 * ev.level
  /\ player.score = 0

\* C9: in a frame in which the player consumes a power pellet, every pursuer
\* that is not eaten is frightened when the encounters are resolved, its home
\* countdown positive or not, and the frame costs no life.
C9_AllFrightenedAfterPower ==
  (ev.played /\ ev.ate = "power") =>
    /\ \A i \in 1..4 : ~ev.seen[i].eaten => ev.seen[i].frightened
    /\ ev.lost = 0

\* C9, the case that fails: a pursuer waiting on its home countdown is not
\* frightened when the encounters of the power pellet's frame are resolved.
C9_WaitingPursuerNotFrightened ==
  /\ ev.played /\ ev.ate = "power"
  /\ \E i \in 1..4 : ev.seen[i].home /\ ~ev.seen[i].eaten /\ ~ev.seen[i].frightened

\* C10: from a life loss that leaves a life until the next power pellet,
\* every frame ends with every pursuer neither frightened nor eaten and with
\* the frightened countdown at 0.
C10_NormalAfterLifeLoss ==
  (ev.played /\ hist.since_loss) =>
    /\ \A i \in 1..4 : ~ghosts[i].frightened /\ ~ghosts[i].eaten
    /\ level_data.frightened_timer = 0

\* C10, the case that fails: the frame of a life loss that leaves a life ends
\* with a pursuer still frightened.
C10_FrightenedAfterLifeLoss ==
  /\ ev.played
  /\ ev.lost > 0 /\ ev.lives > 0
  /\ level_data.frightened_timer = 0
  /\ \E i \in 1..4 : ghosts[i].frightened

\* the frame lost a life and left one, and did not clear the level
LifeLostAndLeft == ev.played /\ ev.lost > 0 /\ ev.lives > 0 /\ ~ev.cleared

\* C11: after a life loss that leaves a life, the player and each pursuer have
\* the position and the heading reset_level gives them at level start, and each
\* pursuer's home countdown is its level-start value.
C11_RespawnIsLevelStart ==
  LifeLostAndLeft =>
    /\ player.x = NewPlayer.x /\ player.y = NewPlayer.y
    /\ player.direction = NewPlayer.direction
    /\ \A i \in 1..4 :
         /\ ghosts[i].x = StartGhosts(level)[i].x
         /\ ghosts[i].y = StartGhosts(level)[i].y
         /\ ghosts[i].dir = StartGhosts(level)[i].dir
         /\ ghosts[i].home_time = StartGhosts(level)[i].home_time

\* C11, the case that fails: after the life loss Blinky stands in the house at
\* (13.5, 14.0) heading up, not at its level-start place (13.5, 11.5) with no
\* heading, and the player keeps the heading it had.
C11_BlinkyRespawnsInHouse ==
  /\ LifeLostAndLeft
  /\ player.x = NewPlayer.x /\ player.y = NewPlayer.y
  /\ player.direction # NoDir
  /\ ghosts[1].x = 13 * U + HalfU /\ ghosts[1].y = 14 * U /\ ghosts[1].dir = DUp
  /\ \A i \in 1..4 : ghosts[i].home_time = HomeTimes(level)[i]

-----------------------------------------------------------------------------
\* the consumed-pellet counts at which the level's bonus items were spawned
\* are pairwise different
WindowsDistinct ==
  \A i, j \in DOMAIN hist.spawns : i # j => hist.spawns[i] # hist.spawns[j]

\* C12: within a level each of the two spawn windows (consumed-pellet count
\* 70, consumed-pellet count 170) triggers at most one bonus-item spawn,
\* however many frames the count stays at that value, and the level never has
\* more than two spawns.
C12_OneSpawnPerWindow ==
  (ev.played /\ ev.spawn) =>
    /\ level_data.fruit.spawned <= 2
    /\ \A i \in DOMAIN hist.spawns : hist.spawns[i] \in FruitSpawnDots
    /\ WindowsDistinct

\* C12: the count stays at 70 for a second frame and the window spawns a
\* second bonus item, which uses up the level's two spawns.
C12_Window70SpawnsTwice ==
  /\ ev.played /\ ev.spawn /\ ev.dots = 70 /\ ev.ate = "none"
  /\ hist.spawns = << 70, 70 >>
  /\ level_data.fruit.spawned = 2
  /\ level_data.fruit.active

-----------------------------------------------------------------------------
\* the pellets left in the level
Remaining == level_data.total_pellets - level_data.dots_eaten

\* the lead pursuer's level speed after n multipliers of 1.05
ElroySpeed(lv, n) ==
  IF n = 0 THEN GhostSpeed(lv)
  ELSE IF n = 1 THEN (GhostSpeed(lv) * 21) \div 20
  ELSE (((GhostSpeed(lv) * 21) \div 20) * 21) \div 20

\* the number of one-shot markers the lead pursuer carries
ElroyMarks ==
  (IF ghosts[1].elroy1_done THEN 1 ELSE 0) + (IF ghosts[1].elroy2_done THEN 1 ELSE 0)

\* C13: within a level each of the two multipliers of the lead pursuer's speed
\* (at 20 pellets left, at 10 pellets left) has been applied exactly once if
\* that count has been reached and not at all otherwise, however many frames
\* the count stays at the threshold and whatever lives are lost; a new level
\* starts with no marker and the level's speed.
C13_ElroyOnce ==
  /\ ghosts[1].elroy1_done <=> Remaining <= 20
  /\ ghosts[1].elroy2_done <=> Remaining <= 10
  /\ ghosts[1].speed = ElroySpeed(level, ElroyMarks)
  /\ \A i \in 2..4 : ghosts[i].speed = GhostSpeed(level)

\* C13: the second frame with 20 pellets left: the first multiplier has been
\* applied once.
C13_HeldAtTwenty ==
  /\ ev.played /\ ev.ate = "none" /\ ev.lost = 0
  /\ Remaining = 20
  /\ ghosts[1].elroy1_done /\ ~ghosts[1].elroy2_done
  /\ ghosts[1].speed = 247800


-----------------------------------------------------------------------------
\* C14: a level change leaves the combo count unchanged: after the frame that
\* completes a level the combo count is the one the frame had reached before
\* the level-clear step.
C14_ComboKeptAcrossLevels ==
  (ev.played /\ ev.cleared) => player.eat_ghost_combo = ev.pre_clear_combo

\* C14, the case that fails: the last pellet of the level is eaten with a
\* combo count of 2, no power pellet is eaten, and the next level starts with
\* a combo count of 0.
C14_ComboZeroedByLevelChange ==
  /\ ev.played /\ ev.cleared /\ ev.ate = "pellet"
  /\ ev.combo = 2 /\ ev.pre_clear_combo = 2
  /\ player.eat_ghost_combo = 0
  /\ level = ev.level + 1

-----------------------------------------------------------------------------
\* pursuer i began the last play frame released, eaten and within the arrival
\* threshold of the home tile: its update of that frame is the arrival
ArrivesHome(i) ==
  /\ ev.played
  /\ ev.g0[i].eaten /\ ev.g0[i].home_time <= 0
  /\ Near(ev.g0[i].x - HomeX, ev.g0[i].y - HomeY)

\* C15: an eaten pursuer that arrives within the arrival threshold of the
\* home tile is, in the state the encounter resolver of that frame uses,
\* neither eaten nor frightened, at the home tile and heading up, whatever the
\* frightened countdown.
C15_ArrivalMakesNormal ==
  \A i \in 1..4 :
    ArrivesHome(i) =>
      /\ ~ev.g1[i].eaten /\ ~ev.g1[i].frightened
      /\ ev.g1[i].x = HomeX /\ ev.g1[i].y = HomeY /\ ev.g1[i].dir = DUp

\* C15, the case that fails: Pinky arrives with the countdown running; the
\* resolver finds it at the home tile, heading up, not eaten and frightened,
\* and the player, half a tile away or less, captures it a second time.
C15_FrightenedOnArrival ==
  /\ ArrivesHome(2) /\ ev.timer > 0
  /\ ~ev.g1[2].eaten /\ ev.g1[2].frightened
  /\ ev.g1[2].x = HomeX /\ ev.g1[2].y = HomeY /\ ev.g1[2].dir = DUp
  /\ Len(ev.captures) > 0 /\ ghosts[2].eaten

-----------------------------------------------------------------------------
\* pursuer i began the last play frame released and eaten and short of the
\* arrival threshold: its update of that frame is a move
EatenMoves(i) ==
  /\ ev.played
  /\ ev.g0[i].eaten /\ ev.g0[i].home_time <= 0
  /\ ~Near(ev.g0[i].x - HomeX, ev.g0[i].y - HomeY)

\* the length of the step pursuer i took in the pursuer loop of the last frame
StepTaken(i) ==
  Abs(ev.g1[i].x - ev.g0[i].x) + Abs(ev.g1[i].y - ev.g0[i].y)

\* the base per-frame step of pursuer i in the last frame: speed * dt
BaseStep(i) == (ev.g0[i].speed * ev.dt) \div 100

\* C16: an eaten pursuer always moves at twice its base per-frame step: its
\* step in a frame is twice the base step (or none, when the destination is a
\* wall), also while the frightened countdown is positive.
C16_EatenStepIsDouble ==
  \A i \in 1..4 :
    EatenMoves(i) => StepTaken(i) \in { 0, 2 * BaseStep(i) }

\* C16, the case that fails: with the countdown positive the eaten Pinky
\* takes a step of exactly the base length.
C16_EatenAtBaseStep ==
  /\ EatenMoves(2) /\ ev.timer > 0
  /\ ev.g1[2].eaten /\ ev.g1[2].frightened
  /\ StepTaken(2) = BaseStep(2) /\ BaseStep(2) > 0

-----------------------------------------------------------------------------
\* the final timeline entry is, or has been, the active one
FinalEntryActive == level_data.mode_index >= FinalEntry

\* C17: once the final timeline entry (chase, unbounded) has become active in
\* a level the mode is chase in every later frame of the level, and in every
\* level, if play continues, the timeline eventually reaches that entry. The
\* behaviours of LongSpec stay in the level they start in.
C17_PermanentChase ==
  /\ [](FinalEntryActive => [](level_data.current_mode = "chase" /\ level = ev.level))
  /\ <>(FinalEntryActive \/ state # "play" \/ level # ev.level)

\* C17: level 1 played for 84 s and longer: the final entry has been active
\* for more than a frame and the mode is chase.
C17_ChaseAfterTimeline ==
  /\ ev.played /\ state = "play" /\ level = 1
  /\ level_data.mode_index > FinalEntry
  /\ level_data.current_mode = "chase"
  /\ player.lives = 3

-----------------------------------------------------------------------------
\* the bonus lives the game had awarded before the last play frame
AwardsBefore == hist.awards - ev.bonus

\* C18: within one game the bonus life is awarded at most once: the life
\* count is incremented by one in the first play frame whose bonus check sees
\* a score of 10,000 or more, and in no other frame of the game, across level
\* changes and life losses.
C18_BonusLifeOnce ==
  /\ hist.awards <= 1
  /\ bonus_life_awarded <=> hist.awards = 1
  /\ ev.played =>
       ev.bonus = IF ev.bonus_score >= BonusLifeScore /\ AwardsBefore = 0 THEN 1 ELSE 0

\* C18: the frame after the award: the bonus check sees 10,000 points again
\* and the life count stays at four.
C18_NoSecondAward ==
  /\ ev.played /\ ev.bonus = 0 /\ ev.bonus_score >= BonusLifeScore
  /\ AwardsBefore = 1
  /\ bonus_life_awarded /\ player.lives = 4

-----------------------------------------------------------------------------
\* the last play frame left the game as it found it: the player, the
\* pursuers, the maze, the countdown at 0, the bonus item inactive, the mode on
\* the final timeline entry. Only mode_index, mode_timer and the frame count
\* differ, and a play frame's result does not depend on them: the same frame
\* time and no key give the same frame again.
Standstill ==
  /\ ev.played /\ state = "play" /\ ~paused
  /\ ev.lost = 0 /\ ~ev.cleared /\ ev.ate = "none"
  /\ player = ev.p0
  /\ ghosts = ev.g0
  /\ ev.timer = 0 /\ level_data.frightened_timer = 0
  /\ ~ev.spawn /\ ~level_data.fruit.active
  /\ ev.mode_index >= FinalEntry

\* C19: every pursuer that becomes eaten eventually reaches the home tile and
\* stops being eaten, provided frames keep being advanced in the play state.
\* Stated for a finite run: the game is never at a standstill with a released
\* pursuer eaten, since the frames that follow a standstill repeat it.
C19_EatenNeverAtStandstill ==
  ~(Standstill /\ \E i \in 1..4 : ghosts[i].eaten /\ ghosts[i].home_time <= 0)

\* C19, the case that fails: after 85 s of play at 50 ms a frame Blinky is
\* eaten at the left wall of the house, 2.36 tiles from the home tile and
\* heading away from it, where it was when the play began.
C19_StillEatenAfterLongPlay ==
  /\ Standstill /\ frames = MaxLongFrames /\ ev.dt = 50
  /\ ghosts[1].eaten /\ ghosts[1].home_time <= 0
  /\ ghosts[1].x = S_stuck.ghosts[1].x /\ ghosts[1].y = HomeY
  /\ ghosts[1].dir = DLeft /\ ghosts[1].x < HomeX

-----------------------------------------------------------------------------
\* pursuer i was, in the pursuer loop of the last play frame, released, not
\* eaten, not frightened and with a set heading: it chose a direction
Chooses(i) ==
  /\ ev.played /\ ~ev.cleared
  /\ ev.g0[i].home_time <= 0 /\ ~ev.g0[i].eaten
  /\ ev.timer <= 0
  /\ ev.g0[i].dir # NoDir

\* the pursuers as the loop had left them when it came to pursuer i
LoopView(i) == [j \in 1..4 |-> IF j < i THEN ev.g1[j] ELSE ev.g0[j]]

\* the target of pursuer i in that frame, in units
TargetOf(i) ==
  IF ev.mode = "scatter"
  THEN << ScatterTarget[i][1] * U, ScatterTarget[i][2] * U >>
  ELSE TargetFunc(i, ev.p1, ev.g0[i], LoopView(i))

\* the tile next to pursuer i in direction d is not a wall
OpenDir(i, d) == Open(level_data.maze, ev.g0[i].x + d[1] * U, ev.g0[i].y + d[2] * U)

\* the squared straight-line distance to the target from the place one tile
\* from pursuer i in direction d
DistOf(i, d) ==
  SumSq(ev.g0[i].x + d[1] * U - TargetOf(i)[1], ev.g0[i].y + d[2] * U - TargetOf(i)[2])

\* the place of d in the order up, down, left, right
DirIndex(d) == CHOOSE k \in 1..4 : DirOrder[k] = d

\* the directions other than the reverse whose neighbouring tile is not a wall
NonReversing(i) ==
  {d \in {DirOrder[k] : k \in 1..4} : d # Opposite(ev.g0[i].dir) /\ OpenDir(i, d)}

\* the admissible directions: the non-reversing ones, and the reverse when it
\* is the only direction whose neighbouring tile is not a wall
Admissible(i) ==
  IF NonReversing(i) # {} THEN NonReversing(i)
  ELSE {d \in {Opposite(ev.g0[i].dir)} : OpenDir(i, d)}

\* d is the admissible direction nearest the target, the first in the order
\* among the nearest
IsChoice(i, d) ==
  /\ d \in Admissible(i)
  /\ \A e \in Admissible(i) :
       /\ ~SqLess(DistOf(i, e), DistOf(i, d))
       /\ DistOf(i, e) = DistOf(i, d) => DirIndex(d) <= DirIndex(e)

\* C20: a normal pursuer with a set heading never picks the reverse of its
\* heading while a non-reversing direction leads to a tile that is not a wall,
\* picks the reverse when the reverse is the only direction that does, and
\* otherwise picks the admissible direction nearest the target, ties going to
\* the first in the order up, down, left, right.
C20_DirectionSelection ==
  \A i \in 1..4 :
    (Chooses(i) /\ Admissible(i) # {}) => IsChoice(i, ev.g1[i].dir)

\* C20, the case that fails: Pinky, heading left at the left wall of the
\* house, has walls above, below and ahead and an open tile behind, and keeps
\* heading left.
C20_OnlyExitBehindNotTaken ==
  /\ Chooses(2)
  /\ ev.g0[2].dir = DLeft
  /\ NonReversing(2) = {} /\ Admissible(2) = {DRight}
  /\ ev.g1[2].dir = DLeft
  /\ ev.g1[2].x = ev.g0[2].x /\ ev.g1[2].y = ev.g0[2].y

-----------------------------------------------------------------------------
(* Encounters with Eaten pursuers                                           *)

\* the encounter loop of the last frame came to pursuer i with the pursuer
\* Eaten and within the proximity threshold of the player
EatenEncounter(i) ==
  /\ ev.played
  /\ ev.passes[i].gs[i].eaten
  /\ Near(ev.passes[i].p.x - ev.passes[i].gs[i].x, ev.passes[i].p.y - ev.passes[i].gs[i].y)

\* C21: an encounter between the player and an Eaten pursuer has no effect:
\* the pass of the encounter loop for that pursuer leaves the score, the combo
\* count, the life count, the game state, the frightened countdown and every
\* agent's position and flags as they were.
C21_EatenEncounterNoEffect ==
  \A i \in 1..4 : EatenEncounter(i) => ev.passes[i + 1] = ev.passes[i]

\* C21, the case: the player met an Eaten pursuer whose frightened flag is
\* set, and the frame ended with no capture and no life lost.
C21_EatenPursuerMet ==
  /\ \E i \in 1..4 : EatenEncounter(i) /\ ev.passes[i].gs[i].frightened
  /\ ev.captures = <<>> /\ ev.lost = 0
  /\ state = "play" /\ player.score = ev.bonus_score /\ player.lives = ev.p1.lives + ev.bonus

-----------------------------------------------------------------------------
(* Pursuers waiting in the house                                            *)

\* C22: in a play frame, the update of a pursuer whose home-release countdown
\* is positive when the loop comes to it changes the countdown, which goes
\* down by the frame time, and nothing else: position, heading, speed, mode
\* and the frightened and eaten flags stay as they were.
C22_WaitingPursuerOnlyCounts ==
  \A i \in 1..4 :
    (ev.played /\ ev.g0[i].home_time > 0)
      => ev.g1[i] = [ev.g0[i] EXCEPT !.home_time = ev.g0[i].home_time - ev.dt]

\* C22, the case: a pursuer waits through a frame in which the frightened
\* countdown runs and the released pursuers are made frightened; its flag
\* stays unset, it stays in place, and its countdown goes down by the frame
\* time.
C22_WaitsThroughFrightenedFrame ==
  /\ ev.played /\ ev.timer > 0
  /\ \E i, j \in 1..4 :
       /\ ev.g0[i].home_time > 0
       /\ ~ev.g1[i].frightened
       /\ ev.g1[i].x = ev.g0[i].x /\ ev.g1[i].y = ev.g0[i].y
       /\ ev.g1[i].home_time = ev.g0[i].home_time - ev.dt
       /\ ev.g0[j].home_time <= 0 /\ ev.g1[j].frightened

-----------------------------------------------------------------------------
(* The frightened countdown                                                 *)

\* C23 as stated: the frightened countdown is never negative and never above
\* the frightened duration of the current level; a play frame in which no
\* power pellet is eaten and no life is lost leaves it at max(0, previous - dt),
\* and it is 0 at every level start.
C23_CountdownAsStated ==
  /\ 0 <= level_data.frightened_timer
  /\ level_data.frightened_timer <= frightened_duration_for_level(level)
  /\ (ev.played /\ ev.ate # "power" /\ ev.lost = 0)
       => level_data.frightened_timer = Max(0, ev.timer - ev.dt)
  /\ ev.reset => level_data.frightened_timer = 0

\* C23, amended: the same, the frame that clears the level excepted: that
\* frame ends at the start of the next level, with the countdown at 0.
C23_CountdownWithinLevel ==
  /\ 0 <= level_data.frightened_timer
  /\ level_data.frightened_timer <= frightened_duration_for_level(level)
  /\ (ev.played /\ ev.ate # "power" /\ ev.lost = 0 /\ ~ev.cleared)
       => level_data.frightened_timer = Max(0, ev.timer - ev.dt)
  /\ ev.reset => level_data.frightened_timer = 0

\* C23, the case: the last pellet of the level is eaten, with no life lost,
\* in a frame that starts with more than the frame time on the countdown; the
\* next level starts with the countdown at 0.
C23_ClearedWhileCounting ==
  /\ ev.played /\ ev.cleared /\ ev.ate = "pellet" /\ ev.lost = 0
  /\ ev.timer > ev.dt
  /\ state = "ready" /\ level = NextLevel(ev.level)
  /\ level_data.frightened_timer = 0

-----------------------------------------------------------------------------
(* The life count                                                           *)

\* C24: the life count is never negative, and the encounter loop of one frame
\* takes at most one life, however many pursuers that are neither frightened
\* nor eaten are within the proximity threshold of the player.
C24_LivesNeverNegative ==
  /\ player.lives >= 0
  /\ ev.played => ev.lost <= 1

\* C24, the case that fails: the encounter loop starts with one life left and
\* two pursuers, neither frightened nor eaten, within the threshold; the first
\* takes the last life and ends the game, the second takes another, and the
\* game is over with a life count of -1.
C24_TwoLivesInOneFrame ==
  /\ ev.played /\ ev.lost = 2
  /\ ev.passes[1].p.lives = 1
  /\ \E i, j \in 1..4 :
       /\ i < j
       /\ \A k \in {i, j} :
            /\ ~ev.passes[1].gs[k].frightened /\ ~ev.passes[1].gs[k].eaten
            /\ Near(ev.passes[1].p.x - ev.passes[1].gs[k].x, ev.passes[1].p.y - ev.passes[1].gs[k].y)
       /\ ev.passes[i + 1].p.lives = 0 /\ ev.passes[i + 1].state = "over"
       /\ ev.passes[j + 1].p.lives = -1
  /\ state = "over" /\ player.lives = -1

-----------------------------------------------------------------------------
(* Captures and the frightened countdown                                    *)

\* the pass of the encounter loop for pursuer i captured it
CapturedAt(i) ==
  ev.played /\ ~ev.passes[i].gs[i].eaten /\ ev.passes[i + 1].gs[i].eaten

\* C25: a pursuer is captured only while the frightened countdown is above 0
\* at the moment the encounter loop comes to it: not in the frame in which
\* the countdown expires, and not after a life loss has set it to 0.
C25_CaptureNeedsCountdown ==
  \A i \in 1..4 : CapturedAt(i) => ev.passes[i].timer > 0

\* C25, the case that fails: the countdown is positive when the frame starts
\* and no power pellet is eaten; the pursuers' loop sets a pursuer's frightened
\* flag, the tick brings the countdown to 0, and the encounter loop, with the
\* countdown at 0, captures the pursuer and adds its points to the score.
C25_CapturedAsCountdownExpires ==
  \E i \in 1..4 :
    /\ CapturedAt(i)
    /\ ev.ate # "power" /\ ev.timer > 0 /\ ev.timer <= ev.dt
    /\ ev.passes[i].timer = 0
    /\ ev.passes[i + 1].p.score > ev.passes[i].p.score

-----------------------------------------------------------------------------
(* The pellet count                                                         *)

\* C26: in every state, however the level was generated, the consumed-pellet
\* count plus the pellet and power-pellet cells left in the grid is the
\* level's total-pellet count; so a play frame declares the level complete
\* exactly when its level-clear test finds no such cell left.
C26_PelletAccounting ==
  /\ level_data.dots_eaten + CountPellets(level_data.maze) = level_data.total_pellets
  /\ ev.played => (ev.cleared <=> ev.left = 0)

\* C26, the case that fails: K_g regenerates the level in glitch mode and the
\* glitch loop turns the pellet cell (13, 23) into a wall; nothing is eaten,
\* the total-pellet count is the 558 counted before the loop, and 557 pellet
\* and power-pellet cells are in the grid.
C26_GlitchedLevelMiscounts ==
  /\ ev.reset /\ glitch_override
  /\ level_data.maze[24][14] = 1
  /\ level_data.dots_eaten = 0
  /\ level_data.total_pellets = TotalPellets
  /\ CountPellets(level_data.maze) = TotalPellets - 1

-----------------------------------------------------------------------------
(* The high score                                                           *)

\* C27: at the end of every play frame the high score is at least the
\* player's score, the frames that add capture points or a level bonus
\* included.
C27_HighScoreCoversScore ==
  ev.played => high_score >= player.score

\* C27, the case that fails: a frame in which a pursuer is captured and the
\* level is not cleared ends with the capture points in the score and not in
\* the high score, which is the score as it was before the encounter loop.
C27_CapturePointsAfterHighScore ==
  /\ ev.played /\ ~ev.cleared /\ ev.captures # <<>>
  /\ high_score = ev.passes[1].p.score
  /\ player.score = high_score + SumSeq(ev.captures)
  /\ player.score > high_score

=============================================================================
